---------------------------- MODULE Spec2Model ----------------------------
(* Adaptive quiz engine (skill-games): the scoring and level state machine, *)
(* the adaptive selector, the mastery ledger kept in the users collection,  *)
(* and the Streamlit session that drives them.                              *)
(*                                                                          *)
(* Encodings.  A question is named by its position in the question bank     *)
(* (ids are unique per question); None for a question is 0.  A Python list  *)
(* of question ids that the code passes around is a sequence of ids; the    *)
(* persisted answered_questions list is a bag, so that a duplicate entry     *)
(* in the stored list is visible.  The difficulty names of adaptive.py      *)
(* ("easy","medium","hard") are written by their index in DIFFICULTY_LEVELS *)
(* plus one.                                                                *)
EXTENDS Bags, FiniteSets, Integers, Naturals, Sequences, TLC

----------------------------------------------------------------------------
(* Bounds of the model *)

(* answers one session processes, over all its attempts *)
MaxAnswers == 3

(* answers of one attempt when the scoring machine is run on its own *)
MaxScored == 9

(* ledger updates begun, and the largest total committed, when the ledger *)
(* is run on its own                                                      *)
MaxUpdates == 3
MaxTotal == 2

(* records of an attempt log when the reporter is run on its own *)
MaxLog == 2

(* the last reading of the clock, and the answers of one session, when the *)
(* quiz page is run against the clock                                      *)
MaxClock == 3
MaxTimedAnswers == 1

----------------------------------------------------------------------------
(* Program constants *)

DIFFICULTY_LEVELS == <<1, 2, 3>>

CORRECTS_TO_PROMOTE == 3

(* 300 in app.py; the clock of the model counts in ticks of 150 seconds *)
QUIZ_DURATION_SECONDS == 2

POINTS_PER_DIFFICULTY == [d \in {1, 2, 3} |-> d]

HT == "Hypothesis Testing"
OS == "One Sample T-Test"
TS == "Two Sample T-Test"

TOPICS ==
  [t \in {HT, OS, TS} |->
     IF t = HT THEN [id |-> "hypothesis_testing", prerequisites |-> {}, points_required |-> 0]
     ELSE IF t = OS THEN [id |-> "one_sample_ttest", prerequisites |-> {"hypothesis_testing"}, points_required |-> 1]
     ELSE [id |-> "two_sample_ttest", prerequisites |-> {"hypothesis_testing"}, points_required |-> 1]]

(* The question bank loaded by init_app: every question has the answer "a" *)
(* among the options <<"a","b">>.                                          *)
Bank ==
  << [difficulty |-> 1, topic |-> HT, answer |-> "a"],
     [difficulty |-> 3, topic |-> HT, answer |-> "a"],
     [difficulty |-> 2, topic |-> HT, answer |-> "a"],
     [difficulty |-> 1, topic |-> HT, answer |-> "a"],
     [difficulty |-> 1, topic |-> OS, answer |-> "a"] >>

QIds == 1 .. Len(Bank)

Options == {"a", "b"}

(* What the learner can submit: an option, or a value that is no option *)
Selections == Options \cup {"z"}

None == 0

----------------------------------------------------------------------------
(* Helpers on Python values *)

Max2(a, b) == IF a >= b THEN a ELSE b

Range(s) == {s[i] : i \in 1 .. Len(s)}

AllQuestions == [i \in QIds |-> i]

(* POINTS_PER_DIFFICULTY.get(...) with one point for every difficulty *)
PointsFor_one(d) == 1

PointsFor(d) == IF d \in DOMAIN POINTS_PER_DIFFICULTY THEN POINTS_PER_DIFFICULTY[d] ELSE 1

MinLevel == 1
MaxLevel == 3


----------------------------------------------------------------------------
(* State *)

VARIABLES
  impl,               \* which module's get_next_question / process_answer runs
  firebase_available, \* the flag init_app computes and every caller passes on
  user_doc,           \* the learner's document in the users collection
  fb_cache,           \* st.cache_data entry of firebase_utils.get_user_data
  app_cache,          \* st.cache_data entry of app.get_user_data
  game_state,         \* st.session_state.game_state
  attempt_meta,       \* st.session_state.attempt_meta
  current_question,   \* st.session_state.current_question (None = 0)
  game_active,        \* st.session_state.game_active
  page,               \* st.session_state.page
  answer_submitted,   \* st.session_state.answer_submitted
  current_topic,      \* st.session_state.current_topic ("" = attribute not set)
  session_questions,  \* st.session_state.questions
  updaters,           \* ledger updates in flight, one per concurrent attempt
  dm_progress,        \* DataManager's progress record of the learner
  answer_trail,       \* history: the last answers of the attempt with the level around each
  last_pick,          \* history: the last next-question selection and what was excluded
  answers_total,      \* history: the number of answers the session has processed
  ledger_hist,        \* history: what the completed ledger updates asked for
  last_answer,        \* history: the last answer processed and whether a store call failed
  probe               \* history: the last stand-alone call of a function, with its result

vars == << impl, firebase_available, user_doc, fb_cache, app_cache, game_state,
           attempt_meta, current_question, game_active, page, answer_submitted,
           current_topic, session_questions, updaters, dm_progress,
           answer_trail, last_pick, answers_total, ledger_hist, last_answer, probe >>

ledger_vars == << updaters, dm_progress, ledger_hist >>

session_vars == << game_state, attempt_meta, current_question, game_active, page,
                   answer_submitted, current_topic, session_questions >>

----------------------------------------------------------------------------
(* The users collection and the cached reads of it *)

NoneUD == [none |-> TRUE, best_score |-> 0, answered_questions |-> EmptyBag]

EmptyCache == [valid |-> FALSE, value |-> NoneUD]

(* firebase_utils.get_user: None without a client or without a document *)
get_user(db_ok, doc) ==
  IF ~db_ok THEN NoneUD
  ELSE IF doc.exists
       THEN [none |-> FALSE, best_score |-> doc.best_score,
             answered_questions |-> doc.answered_questions]
       ELSE NoneUD

(* firebase_utils.get_user_data under st.cache_data: a hit returns the entry; *)
(* a miss reads the document, and a read that raises caches nothing.         *)
fb_get_user_data(cache, db_ok, doc, fails) ==
  IF cache.valid THEN [raised |-> FALSE, value |-> cache.value, cache |-> cache]
  ELSE IF db_ok /\ fails THEN [raised |-> TRUE, value |-> NoneUD, cache |-> cache]
  ELSE LET u == get_user(db_ok, doc)
       IN [raised |-> FALSE, value |-> u, cache |-> [valid |-> TRUE, value |-> u]]

(* app.get_user_data under st.cache_data: a read that raises returns None, *)
(* and that None is the cached return value.                                *)
app_get_user_data(cache, db_ok, doc, fails) ==
  IF cache.valid THEN [raised |-> FALSE, value |-> cache.value, cache |-> cache]
  ELSE LET u == IF ~db_ok \/ fails THEN NoneUD ELSE get_user(db_ok, doc)
       IN [raised |-> FALSE, value |-> u, cache |-> [valid |-> TRUE, value |-> u]]

(* set(user_data.get("answered_questions", [])) with "if user_data" / "or {}" *)
AnsweredSet(u) == IF u.none THEN {} ELSE BagToSet(u.answered_questions)

(* list(prev_answers): a list with every member of the set once *)
ListOfSet(S) == SetToBag(S)

(* lines 92-100 with the given score written as it is *)
update_data_overwrite(data, best_score, new_answered_ids) ==
  [best_score |-> best_score,
   answered_questions |->
     ListOfSet(BagToSet(data.answered_questions) \cup new_answered_ids)]

(* lines 92-100 with the new ids appended to the stored list *)
update_data_append(data, best_score, new_answered_ids) ==
  [best_score |-> Max2(data.best_score, best_score),
   answered_questions |-> data.answered_questions (+) SetToBag(new_answered_ids)]

(* update_user_best_and_answers, lines 92-100: the update computed from the *)
(* document read at line 88                                                 *)
update_data(data, best_score, new_answered_ids) ==
  LET prev_answers == BagToSet(data.answered_questions) \cup new_answered_ids
      new_best == Max2(data.best_score, best_score)
  IN [best_score |-> new_best, answered_questions |-> ListOfSet(prev_answers)]

(* user_ref.update with the answered_questions field left out of the update *)
apply_update_score_only(doc, upd) ==
  [doc EXCEPT !.best_score = upd.best_score]

(* user_ref.update(update_data): the named fields are overwritten *)
apply_update(doc, upd) ==
  [doc EXCEPT !.best_score = upd.best_score,
              !.answered_questions = upd.answered_questions]

(* update_user_best_and_answers called by one thread with nothing in between *)
update_user_best_and_answers(db_ok, doc, best_score, new_answered_ids) ==
  IF ~db_ok THEN [ok |-> FALSE, doc |-> doc]
  ELSE IF ~doc.exists THEN [ok |-> FALSE, doc |-> doc]
  ELSE [ok |-> TRUE, doc |-> apply_update(doc, update_data(doc, best_score, new_answered_ids))]

(* the argument updated_data left out or None *)
NoUpdatedData == [none |-> TRUE]

(* the call with user_ref.set in place of user_ref.update and no test of *)
(* user_doc.exists: a missing record is created                          *)
update_user_best_and_answers_upsert(db_ok, doc, best_score, new_answered_ids, updated_data) ==
  IF ~db_ok THEN [ok |-> FALSE, doc |-> doc]
  ELSE LET written == apply_update([doc EXCEPT !.exists = TRUE],
                                   update_data(doc, best_score, new_answered_ids))
       IN [ok |-> TRUE,
           doc |-> IF ~updated_data.none /\ "topic_progress" \in DOMAIN updated_data
                   THEN [written EXCEPT !.topic_progress = updated_data.topic_progress]
                   ELSE written]

(* update_user_best_and_answers, lines 83-108, with its optional argument *)
(* updated_data, on a document that has a topic_progress field            *)
update_user_best_and_answers_with(db_ok, doc, best_score, new_answered_ids, updated_data) ==
  IF ~db_ok THEN [ok |-> FALSE, doc |-> doc]
  ELSE IF ~doc.exists THEN [ok |-> FALSE, doc |-> doc]
  ELSE LET written == apply_update(doc, update_data(doc, best_score, new_answered_ids))
       IN [ok |-> TRUE,
           doc |-> IF ~updated_data.none /\ "topic_progress" \in DOMAIN updated_data
                   THEN [written EXCEPT !.topic_progress = updated_data.topic_progress]
                   ELSE written]

----------------------------------------------------------------------------
(* Scoring and level state machine *)

NoState == [none |-> TRUE]

(* init_user_game_state that takes the points of the attempt before over *)
init_user_game_state_keeps_points ==
  [current_level |-> 1, streak_at_level |-> 0,
   total_points |-> IF game_state = NoState THEN 0 ELSE game_state.total_points,
   max_streak |-> 0, current_streak |-> 0, answered_this_attempt |-> << >>]

init_user_game_state ==
  [current_level |-> 1, streak_at_level |-> 0, total_points |-> 0,
   max_streak |-> 0, current_streak |-> 0, answered_this_attempt |-> << >>]

(* process_answer with line 357 left out: a wrong answer keeps streak_at_level *)
score_update_wrong_keeps_level_streak(state, qid, correct, points) ==
  LET s1 == [state EXCEPT !.answered_this_attempt = Append(@, qid),
                          !.current_streak = @ + (IF correct THEN 1 ELSE 0)]
      s2 == [s1 EXCEPT !.max_streak = Max2(@, s1.current_streak)]
  IN IF correct
     THEN LET s3 == [s2 EXCEPT !.total_points = @ + points,
                               !.streak_at_level = @ + 1]
          IN IF s3.streak_at_level >= CORRECTS_TO_PROMOTE
             THEN [s3 EXCEPT !.current_level = IF @ < MaxLevel THEN @ + 1 ELSE @,
                             !.streak_at_level = 0]
             ELSE s3
     ELSE [s2 EXCEPT !.current_level = IF @ > MinLevel THEN @ - 1 ELSE @,
                     !.streak_at_level = @,
                     !.current_streak = 0]

(* process_answer with the id recorded in answered_this_attempt only for *)
(* a correct answer                                                      *)
score_update_forgets_wrong(state, qid, correct, points) ==
  LET s1 == [state EXCEPT !.answered_this_attempt = IF correct THEN Append(@, qid) ELSE @,
                          !.current_streak = @ + (IF correct THEN 1 ELSE 0)]
      s2 == [s1 EXCEPT !.max_streak = Max2(@, s1.current_streak)]
  IN IF correct
     THEN LET s3 == [s2 EXCEPT !.total_points = @ + points,
                               !.streak_at_level = @ + 1]
          IN IF s3.streak_at_level >= CORRECTS_TO_PROMOTE
             THEN [s3 EXCEPT !.current_level = IF @ < MaxLevel THEN @ + 1 ELSE @,
                             !.streak_at_level = 0]
             ELSE s3
     ELSE [s2 EXCEPT !.current_level = IF @ > MinLevel THEN @ - 1 ELSE @,
                     !.streak_at_level = 0,
                     !.current_streak = 0]

(* process_answer with max_streak set back by a wrong answer as well *)
score_update_resets_max(state, qid, correct, points) ==
  LET s1 == [state EXCEPT !.answered_this_attempt = Append(@, qid),
                          !.current_streak = @ + (IF correct THEN 1 ELSE 0)]
      s2 == [s1 EXCEPT !.max_streak = Max2(@, s1.current_streak)]
  IN IF correct
     THEN LET s3 == [s2 EXCEPT !.total_points = @ + points,
                               !.streak_at_level = @ + 1]
          IN IF s3.streak_at_level >= CORRECTS_TO_PROMOTE
             THEN [s3 EXCEPT !.current_level = IF @ < MaxLevel THEN @ + 1 ELSE @,
                             !.streak_at_level = 0]
             ELSE s3
     ELSE [s2 EXCEPT !.current_level = IF @ > MinLevel THEN @ - 1 ELSE @,
                     !.streak_at_level = 0,
                     !.current_streak = 0,
                     !.max_streak = 0]

(* process_answer with the streak reset only when the level goes up *)
score_update_top_keeps_streak(state, qid, correct, points) ==
  LET s1 == [state EXCEPT !.answered_this_attempt = Append(@, qid),
                          !.current_streak = @ + (IF correct THEN 1 ELSE 0)]
      s2 == [s1 EXCEPT !.max_streak = Max2(@, s1.current_streak)]
  IN IF correct
     THEN LET s3 == [s2 EXCEPT !.total_points = @ + points,
                               !.streak_at_level = @ + 1]
          IN IF s3.streak_at_level >= CORRECTS_TO_PROMOTE /\ s3.current_level < MaxLevel
             THEN [s3 EXCEPT !.current_level = @ + 1,
                             !.streak_at_level = 0]
             ELSE s3
     ELSE [s2 EXCEPT !.current_level = IF @ > MinLevel THEN @ - 1 ELSE @,
                     !.streak_at_level = 0,
                     !.current_streak = 0]

(* process_answer with the promotion not capped at the top level *)
score_update_uncapped(state, qid, correct, points) ==
  LET s1 == [state EXCEPT !.answered_this_attempt = Append(@, qid),
                          !.current_streak = @ + (IF correct THEN 1 ELSE 0)]
      s2 == [s1 EXCEPT !.max_streak = Max2(@, s1.current_streak)]
  IN IF correct
     THEN LET s3 == [s2 EXCEPT !.total_points = @ + points,
                               !.streak_at_level = @ + 1]
          IN IF s3.streak_at_level >= CORRECTS_TO_PROMOTE
             THEN [s3 EXCEPT !.current_level = IF TRUE THEN @ + 1 ELSE @,
                             !.streak_at_level = 0]
             ELSE s3
     ELSE [s2 EXCEPT !.current_level = IF @ > MinLevel THEN @ - 1 ELSE @,
                     !.streak_at_level = 0,
                     !.current_streak = 0]

(* process_answer with the promotion test > in place of >= *)
score_update_late(state, qid, correct, points) ==
  LET s1 == [state EXCEPT !.answered_this_attempt = Append(@, qid),
                          !.current_streak = @ + (IF correct THEN 1 ELSE 0)]
      s2 == [s1 EXCEPT !.max_streak = Max2(@, s1.current_streak)]
  IN IF correct
     THEN LET s3 == [s2 EXCEPT !.total_points = @ + points,
                               !.streak_at_level = @ + 1]
          IN IF s3.streak_at_level > CORRECTS_TO_PROMOTE
             THEN [s3 EXCEPT !.current_level = IF @ < MaxLevel THEN @ + 1 ELSE @,
                             !.streak_at_level = 0]
             ELSE s3
     ELSE [s2 EXCEPT !.current_level = IF @ > MinLevel THEN @ - 1 ELSE @,
                     !.streak_at_level = 0,
                     !.current_streak = 0]

(* process_answer with line 358 left out: a wrong answer keeps current_streak *)
score_update_keeps_streak(state, qid, correct, points) ==
  LET s1 == [state EXCEPT !.answered_this_attempt = Append(@, qid),
                          !.current_streak = @ + (IF correct THEN 1 ELSE 0)]
      s2 == [s1 EXCEPT !.max_streak = Max2(@, s1.current_streak)]
  IN IF correct
     THEN LET s3 == [s2 EXCEPT !.total_points = @ + points,
                               !.streak_at_level = @ + 1]
          IN IF s3.streak_at_level >= CORRECTS_TO_PROMOTE
             THEN [s3 EXCEPT !.current_level = IF @ < MaxLevel THEN @ + 1 ELSE @,
                             !.streak_at_level = 0]
             ELSE s3
     ELSE [s2 EXCEPT !.current_level = IF @ > MinLevel THEN @ - 1 ELSE @,
                     !.streak_at_level = 0,
                     !.current_streak = @]

(* process_answer, game_logic.py lines 338-358 (app.py lines 715-735): the *)
(* update of the game state for one answer                                 *)
score_update(state, qid, correct, points) ==
  LET s1 == [state EXCEPT !.answered_this_attempt = Append(@, qid),
                          !.current_streak = @ + (IF correct THEN 1 ELSE 0)]
      s2 == [s1 EXCEPT !.max_streak = Max2(@, s1.current_streak)]
  IN IF correct
     THEN LET s3 == [s2 EXCEPT !.total_points = @ + points,
                               !.streak_at_level = @ + 1]
          IN IF s3.streak_at_level >= CORRECTS_TO_PROMOTE
             THEN [s3 EXCEPT !.current_level = IF @ < MaxLevel THEN @ + 1 ELSE @,
                             !.streak_at_level = 0]
             ELSE s3
     ELSE [s2 EXCEPT !.current_level = IF @ > MinLevel THEN @ - 1 ELSE @,
                     !.streak_at_level = 0,
                     !.current_streak = 0]

(* handle_answer, adaptive.py lines 52-76: the points come from the level *)
(* the learner is at, not from the question                               *)
handle_answer_update(state, qid, is_correct) ==
  score_update(state, qid, is_correct, PointsFor(state.current_level))

----------------------------------------------------------------------------
(* Adaptive selector *)

(* select_question without the test on excluded_ids *)
select_question_any(questions, current_level, excluded_ids) ==
  {q \in Range(questions) : Bank[q].difficulty = current_level}

(* select_question with >= in place of == in the test on the difficulty *)
select_question_at_least(questions, current_level, excluded_ids) ==
  {q \in Range(questions) :
     Bank[q].difficulty >= current_level /\ q \notin excluded_ids}

(* select_question / next_question_for_user: the candidates random.choice *)
(* draws from; the empty set stands for the result None                    *)
select_question(questions, current_level, excluded_ids) ==
  {q \in Range(questions) :
     Bank[q].difficulty = current_level /\ q \notin excluded_ids}

TopicQuestions(questions, topic) ==
  IF topic # "" THEN SelectSeq(questions, LAMBDA q : Bank[q].topic = topic) ELSE questions

(* get_next_question from the excluded set on (game_logic.py lines 273-299, *)
(* app.py lines 527-553): the set of questions it can return                *)
get_next_question(questions, state, topic, excluded_forever) ==
  LET total_excluded == excluded_forever \cup Range(state.answered_this_attempt)
      topic_questions == TopicQuestions(questions, topic)
      cands == select_question(topic_questions, state.current_level, total_excluded)
      available == SelectSeq(topic_questions, LAMBDA q : q \notin total_excluded)
  IN IF cands # {} THEN cands
     ELSE IF available # << >> THEN {available[1]}
     ELSE {None}

(* the first level of DIFFICULTY_LEVELS, other than the current one, that *)
(* has a candidate (0 if there is none)                                   *)
RECURSIVE first_other_level(_, _, _, _)
first_other_level(i, questions, current_level, excluded) ==
  IF i > Len(DIFFICULTY_LEVELS) THEN 0
  ELSE IF DIFFICULTY_LEVELS[i] # current_level
          /\ select_question(questions, DIFFICULTY_LEVELS[i], excluded) # {}
       THEN DIFFICULTY_LEVELS[i]
       ELSE first_other_level(i + 1, questions, current_level, excluded)

(* the next question of process_answer (game_logic.py lines 367-380) and of *)
(* handle_answer (adaptive.py lines 81-93)                                  *)
next_after_answer(questions, state, excluded_forever) ==
  LET total_excluded == excluded_forever \cup Range(state.answered_this_attempt)
      cands == select_question(questions, state.current_level, total_excluded)
      lvl == first_other_level(1, questions, state.current_level, total_excluded)
  IN IF cands # {} THEN cands
     ELSE IF lvl # 0 THEN select_question(questions, lvl, total_excluded)
     ELSE {None}

----------------------------------------------------------------------------
(* Skill-tree gate *)

RECURSIVE SumPoints(_)
SumPoints(s) ==
  IF s = << >> THEN 0
  ELSE PointsFor(Bank[Head(s)].difficulty) + SumPoints(Tail(s))

(* user_data.get('topic_progress', {}): a function from the topics that *)
(* have an entry to their entries                                       *)
topic_progress_of(user_data) ==
  IF "topic_progress" \in DOMAIN user_data THEN user_data.topic_progress ELSE << >>

(* topic_progress.get('unlocked', topic == "Hypothesis Testing") *)
stored_unlocked(user_data, topic) ==
  IF topic \in DOMAIN topic_progress_of(user_data)
  THEN topic_progress_of(user_data)[topic].unlocked
  ELSE topic = HT

(* lines 154-171: the stats returned without a record, without questions *)
(* or without a question of the topic                                    *)
default_stats(topic) ==
  [points |-> 0, total_points |-> 0, mastered |-> 0, total_questions |-> 0,
   unlocked |-> topic = HT]

(* get_topic_stats, lines 153-200 *)
get_topic_stats(user_data, questions, topic) ==
  IF user_data.none \/ questions = << >> THEN default_stats(topic)
  ELSE LET topic_questions == SelectSeq(questions, LAMBDA q : Bank[q].topic = topic)
           mastered_questions ==
             SelectSeq(topic_questions, LAMBDA q : q \in AnsweredSet(user_data))
       IN IF topic_questions = << >> THEN default_stats(topic)
          ELSE [points |-> SumPoints(mastered_questions),
                total_points |-> SumPoints(topic_questions),
                mastered |-> Len(mastered_questions),
                total_questions |-> Len(topic_questions),
                unlocked |-> stored_unlocked(user_data, topic)]

(* get_topic_stats(...)['points'] *)
topic_points(user_data, questions, topic) ==
  get_topic_stats(user_data, questions, topic).points

TopicOfId(id) == CHOOSE t \in DOMAIN TOPICS : TOPICS[t].id = id

(* sum(get_topic_stats(user_data, questions, t)['points'] for t in ...) *)
RECURSIVE prereq_points(_, _, _)
prereq_points(S, user_data, questions) ==
  IF S = {} THEN 0
  ELSE LET t == CHOOSE y \in S : TRUE
       IN topic_points(user_data, questions, t) + prereq_points(S \ {t}, user_data, questions)

(* update_topic_progress, lines 79-98, on the topic_progress of the record: *)
(* a first attempt creates the entry, an attempt with questions of the      *)
(* topic counts as one more                                                 *)
update_topic_progress(progress, topic, has_questions) ==
  LET created == IF topic \in DOMAIN progress THEN progress
                 ELSE [t \in DOMAIN progress \cup {topic} |->
                         IF t = topic THEN [attempts |-> 0, unlocked |-> topic = HT]
                         ELSE progress[t]]
  IN IF has_questions THEN [created EXCEPT ![topic].attempts = @ + 1] ELSE created

(* is_topic_unlocked answering True at once when the stored flag says so *)
is_topic_unlocked_stored_flag(topic, user_data, questions) ==
  IF user_data.none THEN topic = HT
  ELSE IF topic = HT THEN TRUE
  ELSE IF stored_unlocked(user_data, topic) THEN TRUE
  ELSE LET info == TOPICS[topic]
           prereqs == {TopicOfId(id) : id \in info.prerequisites}
       IN /\ \A p \in prereqs :
               ~(topic_points(user_data, questions, p) < TOPICS[p].points_required)
          /\ ~(prereq_points(prereqs, user_data, questions) < info.points_required)

(* is_topic_unlocked with line 225 returning False for a missing record *)
is_topic_unlocked_needs_record(topic, user_data, questions) ==
  IF user_data.none THEN FALSE
  ELSE IF topic = HT THEN TRUE
  ELSE LET info == TOPICS[topic]
           prereqs == {TopicOfId(id) : id \in info.prerequisites}
       IN /\ \A p \in prereqs :
               ~(topic_points(user_data, questions, p) < TOPICS[p].points_required)
          /\ ~(prereq_points(prereqs, user_data, questions) < info.points_required)

(* is_topic_unlocked with <= in place of < in the last test *)
is_topic_unlocked_strict(topic, user_data, questions) ==
  IF user_data.none THEN topic = HT
  ELSE IF topic = HT THEN TRUE
  ELSE LET info == TOPICS[topic]
           prereqs == {TopicOfId(id) : id \in info.prerequisites}
       IN /\ \A p \in prereqs :
               ~(topic_points(user_data, questions, p) < TOPICS[p].points_required)
          /\ ~(prereq_points(prereqs, user_data, questions) <= info.points_required)

is_topic_unlocked(topic, user_data, questions) ==
  IF user_data.none THEN topic = HT
  ELSE IF topic = HT THEN TRUE
  ELSE LET info == TOPICS[topic]
           prereqs == {TopicOfId(id) : id \in info.prerequisites}
       IN /\ \A p \in prereqs :
               ~(topic_points(user_data, questions, p) < TOPICS[p].points_required)
          /\ ~(prereq_points(prereqs, user_data, questions) < info.points_required)

----------------------------------------------------------------------------
(* Session: construction *)

Impls == {"app", "game_logic", "adaptive"}

NoPick ==
  [by |-> "none", q |-> None, answered |-> {}, mastered |-> {},
   level |-> 0, pool |-> {}, excluded |-> {}]

NoAnswer ==
  [q |-> None, difficulty |-> 0, chosen |-> "", correct |-> FALSE, io_failed |-> FALSE]

NoProbe == [fn |-> "none"]

IdleUpdater == [pc |-> "idle", best_score |-> 0, new_ids |-> {}, data |-> NoneUD]

Updaters == {1, 2}

NoHistory ==
  [begun |-> 0, requested |-> {}, max_score |-> 0, dm_max |-> 0, overlapped |-> FALSE,
   last |-> [ids |-> {}, score |-> 0, before |-> EmptyBag, after |-> EmptyBag]]

(* create_user_record: the document of a learner who has just signed up *)
NewUserDoc == [exists |-> TRUE, best_score |-> 0, answered_questions |-> EmptyBag]

(* init_session, with the question bank of init_app in the session *)
Init ==
  /\ impl \in Impls
  /\ firebase_available \in (IF impl = "game_logic" THEN BOOLEAN ELSE {TRUE})
  /\ user_doc = NewUserDoc
  /\ fb_cache = EmptyCache
  /\ app_cache = EmptyCache
  /\ game_state = NoState
  /\ attempt_meta = NoState
  /\ current_question = None
  /\ game_active = FALSE
  /\ page = "home"
  /\ answer_submitted = FALSE
  /\ current_topic = ""
  /\ session_questions = AllQuestions
  /\ updaters = [p \in Updaters |-> IdleUpdater]
  /\ dm_progress = [best_score |-> 0]
  /\ ledger_hist = NoHistory
  /\ answer_trail = << >>
  /\ last_pick = NoPick
  /\ answers_total = 0
  /\ last_answer = NoAnswer
  /\ probe = NoProbe

----------------------------------------------------------------------------
(* Session: navigation and attempt start *)

(* render_nav, the Topics button (shown when no quiz is active) *)
NavTopics ==
  /\ ~game_active
  /\ page # "topics"
  /\ page' = "topics"
  /\ UNCHANGED << impl, probe, last_answer, firebase_available, user_doc, fb_cache, app_cache, game_state,
                  attempt_meta, current_question, game_active, answer_submitted,
                  current_topic, session_questions, ledger_vars,
                  answer_trail, last_pick, answers_total, ledger_hist >>

(* start_quiz: a fresh attempt *)
fresh_attempt_meta == [questions_attempted |-> << >>, total_points |-> 0]

(* render_topics with a click on Start Quiz of an unlocked topic, then *)
(* start_topic_quiz and start_quiz: what they do to the session        *)
start_topic_quiz(topic, fails) ==
  /\ page = "topics"
  /\ ~game_active
  /\ LET r == IF firebase_available
              THEN fb_get_user_data(fb_cache, firebase_available, user_doc, fails)
              ELSE [raised |-> FALSE, value |-> NoneUD, cache |-> fb_cache]
     IN /\ ~r.raised
        /\ is_topic_unlocked(topic, r.value, session_questions)
        /\ fb_cache' = r.cache
  /\ session_questions' = SelectSeq(session_questions, LAMBDA q : Bank[q].topic = topic)
  /\ current_topic' = topic
  /\ game_state' = init_user_game_state
  /\ attempt_meta' = fresh_attempt_meta
  /\ current_question' = None
  /\ game_active' = TRUE
  /\ answer_submitted' = FALSE
  /\ answer_trail' = << >>
  /\ last_pick' = NoPick
  /\ last_answer' = NoAnswer
  /\ UNCHANGED << impl, firebase_available, user_doc, app_cache, page, ledger_vars, answers_total >>

StartTopicQuiz(topic, fails) ==
  /\ start_topic_quiz(topic, fails)
  /\ UNCHANGED probe

(* st.cache_data(ttl=5) of firebase_utils.get_user_data runs out *)
FbCacheExpire ==
  /\ fb_cache.valid
  /\ fb_cache' = EmptyCache
  /\ UNCHANGED << impl, probe, last_answer, firebase_available, user_doc, app_cache, session_vars, ledger_vars, answer_trail, last_pick, answers_total >>

(* st.cache_data(ttl=30) of app.get_user_data runs out *)
AppCacheExpire ==
  /\ app_cache.valid
  /\ app_cache' = EmptyCache
  /\ UNCHANGED << impl, probe, last_answer, firebase_available, user_doc, fb_cache, session_vars, ledger_vars, answer_trail, last_pick, answers_total >>

----------------------------------------------------------------------------
(* Session: attempt end *)

CorrectIds(meta) ==
  {meta.questions_attempted[i].id :
     i \in {j \in 1 .. Len(meta.questions_attempted) : meta.questions_attempted[j].correct}}

(* end_quiz, game_logic.py lines 105-148: what it leaves in the users *)
(* collection and in the caches                                       *)
end_quiz_result(fbc, appc, doc, state, meta, fails_read, fails_log, fails_write) ==
  IF ~firebase_available
  THEN [doc |-> doc, fb_cache |-> fbc, app_cache |-> appc, saved |-> FALSE]
  ELSE LET r == fb_get_user_data(fbc, firebase_available, doc, fails_read)
           current_answered == AnsweredSet(r.value) \cup CorrectIds(meta)
           w == update_user_best_and_answers(firebase_available, doc,
                                             state.total_points, current_answered)
       IN IF r.raised
          THEN [doc |-> doc, fb_cache |-> fbc, app_cache |-> appc, saved |-> FALSE]
          ELSE IF fails_log \/ fails_write
          THEN [doc |-> doc, fb_cache |-> r.cache, app_cache |-> appc, saved |-> FALSE]
          ELSE [doc |-> w.doc, fb_cache |-> EmptyCache, app_cache |-> EmptyCache,
                saved |-> w.ok]

(* end_quiz as a step of the session, after the caches have become fbc, appc; *)
(* handle_answer's module has no attempt end of its own and saves nothing     *)
end_quiz(fbc, appc, fails_read, fails_log, fails_write) ==
  LET e == IF impl = "adaptive"
           THEN [doc |-> user_doc, fb_cache |-> fbc, app_cache |-> appc, saved |-> FALSE]
           ELSE end_quiz_result(fbc, appc, user_doc, game_state, attempt_meta,
                                fails_read, fails_log, fails_write)
  IN /\ game_active' = FALSE
     /\ page' = "results"
     /\ user_doc' = e.doc
     /\ fb_cache' = e.fb_cache
     /\ app_cache' = e.app_cache

(* render_game, lines 564-568 (time is up), or the End Quiz button of render_nav *)
EndQuiz(fails_read, fails_log, fails_write) ==
  /\ game_active
  /\ end_quiz(fb_cache, app_cache, fails_read, fails_log, fails_write)
  /\ UNCHANGED << impl, probe, last_answer, firebase_available, game_state, attempt_meta, current_question,
                  answer_submitted, current_topic, session_questions, ledger_vars, answer_trail, last_pick, answers_total >>

----------------------------------------------------------------------------
(* Session: the quiz page *)

Persisted == BagToSet(user_doc.answered_questions)

(* what a selection returned, from which questions, at which level, and *)
(* the ids it took as excluded                                          *)
Pick(by, q, state, pool, excluded_forever) ==
  [by |-> by, q |-> q, answered |-> Range(state.answered_this_attempt),
   mastered |-> Persisted, level |-> state.current_level, pool |-> Range(pool),
   excluded |-> excluded_forever \cup Range(state.answered_this_attempt)]

(* the answer a handler has just processed *)
Answered(q, selected, correct, io_failed) ==
  [q |-> q, difficulty |-> Bank[q].difficulty, chosen |-> selected,
   correct |-> correct, io_failed |-> io_failed]

(* the question lists a caller of game_logic's functions has at hand *)
CallerQuestions == {AllQuestions, session_questions}

(* render_game, lines 570-580, with app.get_next_question *)
AppFetch(fails, fails_read, fails_log, fails_write) ==
  /\ impl = "app"
  /\ game_active
  /\ current_question = None
  /\ LET r == app_get_user_data(app_cache, firebase_available, user_doc, fails)
         choices == get_next_question(AllQuestions, game_state, current_topic,
                                      AnsweredSet(r.value))
     IN \E nq \in choices :
          /\ current_question' = nq
          /\ answer_submitted' = FALSE
          /\ last_pick' = Pick("get_next_question", nq, game_state,
                                TopicQuestions(AllQuestions, current_topic),
                                AnsweredSet(r.value))
          /\ IF nq = None
             THEN end_quiz(fb_cache, r.cache, fails_read, fails_log, fails_write)
             ELSE /\ app_cache' = r.cache
                  /\ UNCHANGED << user_doc, fb_cache, game_active, page >>
  /\ UNCHANGED << impl, probe, last_answer, firebase_available, game_state, attempt_meta, current_topic,
                  session_questions, ledger_vars, answer_trail, answers_total >>

(* the same page with game_logic.get_next_question(questions, firebase_available); *)
(* a read that raises leaves the run without a question and without a change       *)
GameLogicFetch(questions, fails, fails_read, fails_log, fails_write) ==
  /\ impl = "game_logic"
  /\ game_active
  /\ current_question = None
  /\ LET r == IF firebase_available
              THEN fb_get_user_data(fb_cache, firebase_available, user_doc, fails)
              ELSE [raised |-> FALSE, value |-> NoneUD, cache |-> fb_cache]
         choices == get_next_question(questions, game_state, current_topic,
                                      AnsweredSet(r.value))
     IN /\ ~r.raised
        /\ \E nq \in choices :
             /\ current_question' = nq
             /\ answer_submitted' = FALSE
             /\ last_pick' = Pick("get_next_question", nq, game_state,
                                   TopicQuestions(questions, current_topic),
                                   AnsweredSet(r.value))
             /\ IF nq = None
                THEN end_quiz(r.cache, app_cache, fails_read, fails_log, fails_write)
                ELSE /\ fb_cache' = r.cache
                     /\ UNCHANGED << user_doc, app_cache, game_active, page >>
  /\ UNCHANGED << impl, probe, last_answer, firebase_available, game_state, attempt_meta, current_topic,
                  session_questions, ledger_vars, answer_trail, answers_total >>

(* the first question with adaptive.next_question_for_user; None ends the attempt *)
AdaptiveFetch ==
  /\ impl = "adaptive"
  /\ game_active
  /\ current_question = None
  /\ LET cands == select_question(AllQuestions, game_state.current_level,
                                  Persisted \cup Range(game_state.answered_this_attempt))
         choices == IF cands # {} THEN cands ELSE {None}
     IN \E nq \in choices :
          /\ current_question' = nq
          /\ answer_submitted' = FALSE
          /\ last_pick' = Pick("get_next_question", nq, game_state, AllQuestions, Persisted)
          /\ IF nq = None
             THEN end_quiz(fb_cache, app_cache, FALSE, FALSE, FALSE)
             ELSE UNCHANGED << user_doc, fb_cache, app_cache, game_active, page >>
  /\ UNCHANGED << impl, probe, last_answer, firebase_available, game_state, attempt_meta, current_topic,
                  session_questions, ledger_vars, answer_trail, answers_total >>

(* the comparison of line 313 with a value that is no option taken as correct *)
answer_correct_lenient(q, selected) ==
  selected = Bank[q].answer \/ selected \notin Options

(* correct = selected == question.get("answer") *)
answer_correct(q, selected) == selected = Bank[q].answer

(* the record with the question's points written whatever the answer was *)
log_entry_flat(q, correct, points) ==
  [id |-> q, difficulty |-> Bank[q].difficulty, topic |-> Bank[q].topic,
   correct |-> correct, pts_awarded |-> PointsFor(Bank[q].difficulty)]

(* the record process_answer appends to the attempt log *)
log_entry(q, correct, points) ==
  [id |-> q, difficulty |-> Bank[q].difficulty, topic |-> Bank[q].topic,
   correct |-> correct, pts_awarded |-> points]

TrailEntry(correct, before, after) ==
  [correct |-> correct,
   level_before |-> before.current_level, streak_before |-> before.streak_at_level,
   level_after |-> after.current_level, streak_after |-> after.streak_at_level,
   current_streak_after |-> after.current_streak]

LastN(s, n) == IF Len(s) <= n THEN s ELSE SubSeq(s, Len(s) - n + 1, Len(s))

PushTrail(correct, before, after) ==
  LastN(Append(answer_trail, TrailEntry(correct, before, after)), CORRECTS_TO_PROMOTE)

(* the ledger commit of a correct answer (app.py lines 751-768): the caches *)
(* are cleared, the record is read again, the update is sent, the cache is  *)
(* cleared again                                                            *)
app_commit(q, total_points, fails_read, fails_write) ==
  LET r == app_get_user_data(EmptyCache, firebase_available, user_doc, fails_read)
      current_answered == AnsweredSet(r.value) \cup {q}
      w == update_user_best_and_answers(firebase_available, user_doc,
                                        total_points, current_answered)
  IN IF fails_write
     THEN [doc |-> user_doc, app_cache |-> r.cache]
     ELSE [doc |-> w.doc, app_cache |-> EmptyCache]

(* render_game, lines 643-651, with app.process_answer *)
AppSubmit(selected, fails, fails_read, fails_write) ==
  /\ impl = "app"
  /\ game_active
  /\ current_question # None
  /\ ~answer_submitted
  /\ answers_total < MaxAnswers
  /\ LET q == current_question
         correct == answer_correct(q, selected)
         points == IF correct THEN PointsFor(Bank[q].difficulty) ELSE 0
         state == score_update(game_state, q, correct, points)
         r == app_get_user_data(app_cache, firebase_available, user_doc, fails)
         choices == get_next_question(AllQuestions, state, current_topic,
                                      AnsweredSet(r.value))
         c == IF correct /\ firebase_available
              THEN app_commit(q, state.total_points, fails_read, fails_write)
              ELSE [doc |-> user_doc, app_cache |-> r.cache]
     IN /\ attempt_meta' = [questions_attempted |->
                              Append(attempt_meta.questions_attempted,
                                     log_entry(q, correct, points)),
                            total_points |-> state.total_points]
        /\ game_state' = state
        /\ answer_trail' = PushTrail(correct, game_state, state)
        /\ user_doc' = c.doc
        /\ app_cache' = c.app_cache
        /\ \E nq \in choices :
             /\ current_question' = nq
             /\ last_pick' = Pick("process_answer", nq, state,
                                   TopicQuestions(AllQuestions, current_topic),
                                   AnsweredSet(r.value))
        /\ last_answer' = Answered(q, selected, correct,
                                   \/ ~app_cache.valid /\ fails
                                   \/ correct /\ firebase_available /\ (fails_read \/ fails_write))
  /\ answer_submitted' = FALSE
  /\ answers_total' = answers_total + 1
  /\ UNCHANGED << impl, probe, firebase_available, fb_cache, game_active, page, current_topic,
                  session_questions, ledger_vars >>

(* the ledger commit of a correct answer in game_logic.process_answer *)
(* (lines 383-397): clear_cache empties every st.cache_data entry     *)
game_logic_commit(q, total_points, fails_read, fails_write) ==
  LET r == fb_get_user_data(EmptyCache, firebase_available, user_doc, fails_read)
      current_answered == AnsweredSet(r.value) \cup {q}
      w == update_user_best_and_answers(firebase_available, user_doc,
                                        total_points, current_answered)
  IN IF r.raised
     THEN [doc |-> user_doc, fb_cache |-> EmptyCache, app_cache |-> EmptyCache]
     ELSE IF fails_write
     THEN [doc |-> user_doc, fb_cache |-> r.cache, app_cache |-> EmptyCache]
     ELSE [doc |-> w.doc, fb_cache |-> EmptyCache, app_cache |-> EmptyCache]

(* the quiz page with game_logic.process_answer(question, selected, questions, *)
(* firebase_available); when the read of line 363 raises, the handler of line  *)
(* 416 runs: the answer is scored and logged, the question stays               *)
GameLogicSubmit(selected, questions, fails, fails_read, fails_write) ==
  /\ impl = "game_logic"
  /\ game_active
  /\ current_question # None
  /\ ~answer_submitted
  /\ answers_total < MaxAnswers
  /\ LET q == current_question
         correct == answer_correct(q, selected)
         points == IF correct THEN PointsFor(Bank[q].difficulty) ELSE 0
         state == score_update(game_state, q, correct, points)
         r == IF firebase_available
              THEN fb_get_user_data(fb_cache, firebase_available, user_doc, fails)
              ELSE [raised |-> FALSE, value |-> NoneUD, cache |-> fb_cache]
         choices == next_after_answer(questions, state, AnsweredSet(r.value))
         c == IF correct /\ firebase_available
              THEN game_logic_commit(q, state.total_points, fails_read, fails_write)
              ELSE [doc |-> user_doc, fb_cache |-> r.cache, app_cache |-> app_cache]
     IN /\ attempt_meta' = [questions_attempted |->
                              Append(attempt_meta.questions_attempted,
                                     log_entry(q, correct, points)),
                            total_points |-> game_state.total_points]
        /\ game_state' = state
        /\ answer_trail' = PushTrail(correct, game_state, state)
        /\ IF r.raised
           THEN UNCHANGED << user_doc, fb_cache, app_cache, current_question, last_pick >>
           ELSE /\ user_doc' = c.doc
                /\ fb_cache' = c.fb_cache
                /\ app_cache' = c.app_cache
                /\ \E nq \in choices :
                     /\ current_question' = nq
                     /\ last_pick' = Pick("process_answer", nq, state, questions,
                                           AnsweredSet(r.value))
        /\ last_answer' = Answered(q, selected, correct,
                                   \/ r.raised
                                   \/ correct /\ firebase_available /\ (fails_read \/ fails_write))
  /\ answer_submitted' = FALSE
  /\ answers_total' = answers_total + 1
  /\ UNCHANGED << impl, probe, firebase_available, game_active, page, current_topic,
                  session_questions, ledger_vars >>

(* an answer handled by adaptive.handle_answer(is_correct, q_id, state,    *)
(* questions, global_excluded), called with the full question list and the *)
(* learner's mastered ids                                                   *)
AdaptiveSubmit(selected) ==
  /\ impl = "adaptive"
  /\ game_active
  /\ current_question # None
  /\ ~answer_submitted
  /\ answers_total < MaxAnswers
  /\ LET q == current_question
         is_correct == answer_correct(q, selected)
         state == handle_answer_update(game_state, q, is_correct)
         choices == next_after_answer(AllQuestions, state, Persisted)
     IN /\ game_state' = state
        /\ answer_trail' = PushTrail(is_correct, game_state, state)
        /\ \E nq \in choices :
             /\ current_question' = nq
             /\ last_pick' = Pick("process_answer", nq, state, AllQuestions, Persisted)
        /\ last_answer' = Answered(q, selected, is_correct, FALSE)
  /\ answers_total' = answers_total + 1
  /\ UNCHANGED << impl, probe, firebase_available, user_doc, fb_cache, app_cache, attempt_meta,
                  game_active, page, answer_submitted, current_topic, session_questions,
                  ledger_vars >>

----------------------------------------------------------------------------
(* The session of one learner, one attempt at a time *)

Next ==
  \/ NavTopics
  \/ \E t \in DOMAIN TOPICS, f \in BOOLEAN : StartTopicQuiz(t, f)
  \/ FbCacheExpire
  \/ AppCacheExpire
  \/ \E f1, f2, f3 \in BOOLEAN : EndQuiz(f1, f2, f3)
  \/ \E f, f1, f2, f3 \in BOOLEAN : AppFetch(f, f1, f2, f3)
  \/ \E qs \in CallerQuestions, f, f1, f2, f3 \in BOOLEAN : GameLogicFetch(qs, f, f1, f2, f3)
  \/ AdaptiveFetch
  \/ \E sel \in Selections, f, f1, f2 \in BOOLEAN : AppSubmit(sel, f, f1, f2)
  \/ \E sel \in Selections, qs \in CallerQuestions, f, f1, f2 \in BOOLEAN :
       GameLogicSubmit(sel, qs, f, f1, f2)
  \/ \E sel \in Selections : AdaptiveSubmit(sel)

Spec == Init /\ [][Next]_vars

----------------------------------------------------------------------------
(* The scoring machine on its own: one attempt, every sequence of correct *)
(* and incorrect answers to questions of every difficulty.  The n-th      *)
(* question answered carries the id n.                                    *)

InitScoring ==
  /\ impl \in Impls
  /\ firebase_available = TRUE
  /\ user_doc = NewUserDoc
  /\ fb_cache = EmptyCache
  /\ app_cache = EmptyCache
  /\ game_state = init_user_game_state
  /\ attempt_meta = fresh_attempt_meta
  /\ current_question = None
  /\ game_active = TRUE
  /\ page = "topics"
  /\ answer_submitted = FALSE
  /\ current_topic = HT
  /\ session_questions = AllQuestions
  /\ updaters = [p \in Updaters |-> IdleUpdater]
  /\ dm_progress = [best_score |-> 0]
  /\ ledger_hist = NoHistory
  /\ answer_trail = << >>
  /\ last_pick = NoPick
  /\ answers_total = 0
  /\ last_answer = NoAnswer
  /\ probe = NoProbe

(* lines 313-317 and 338-358 of process_answer, or lines 52-76 of handle_answer *)
ScoreAnswer(correct, difficulty) ==
  /\ game_active
  /\ answers_total < MaxScored
  /\ LET q == answers_total + 1
         points == IF correct THEN PointsFor(difficulty) ELSE 0
         state == IF impl = "adaptive"
                  THEN handle_answer_update(game_state, q, correct)
                  ELSE score_update(game_state, q, correct, points)
     IN /\ game_state' = state
        /\ answer_trail' = PushTrail(correct, game_state, state)
        /\ last_answer' = [q |-> q, difficulty |-> difficulty,
                           chosen |-> IF correct THEN "a" ELSE "b",
                           correct |-> correct, io_failed |-> FALSE]
  /\ answers_total' = answers_total + 1
  /\ UNCHANGED << impl, probe, firebase_available, user_doc, fb_cache, app_cache, attempt_meta,
                  current_question, game_active, page, answer_submitted, current_topic,
                  session_questions, ledger_vars, last_pick >>

NextScoring == \E correct \in BOOLEAN, d \in {1, 2, 3} : ScoreAnswer(correct, d)

SpecScoring == InitScoring /\ [][NextScoring]_vars

----------------------------------------------------------------------------
(* The ledger on its own: update_user_best_and_answers called for one     *)
(* learner by two attempts whose reads and writes of the document may     *)
(* interleave, and DataManager.end_session for the file-based store.      *)

MissingDoc == [exists |-> FALSE, best_score |-> 0, answered_questions |-> EmptyBag]

InitLedger ==
  /\ impl = "game_logic"
  /\ firebase_available \in BOOLEAN
  /\ user_doc \in {NewUserDoc, MissingDoc}
  /\ fb_cache = EmptyCache
  /\ app_cache = EmptyCache
  /\ game_state = NoState
  /\ attempt_meta = NoState
  /\ current_question = None
  /\ game_active = FALSE
  /\ page = "home"
  /\ answer_submitted = FALSE
  /\ current_topic = ""
  /\ session_questions = AllQuestions
  /\ updaters = [p \in Updaters |-> IdleUpdater]
  /\ dm_progress = [best_score |-> 0]
  /\ ledger_hist = NoHistory
  /\ answer_trail = << >>
  /\ last_pick = NoPick
  /\ answers_total = 0
  /\ last_answer = NoAnswer
  /\ probe = NoProbe

(* the id lists a caller commits: lists over the first two questions *)
NewIdSets == SUBSET {1, 2}

(* a caller enters update_user_best_and_answers(email, best_score, new_answered_ids); *)
(* lines 84-86: without a client it returns False at once                           *)
UpdateCall(p, best_score, new_answered_ids) ==
  /\ updaters[p].pc = "idle"
  /\ ledger_hist.begun < MaxUpdates
  /\ updaters' = [updaters EXCEPT ![p] =
                    [pc |-> IF firebase_available THEN "get" ELSE "idle",
                     best_score |-> best_score, new_ids |-> new_answered_ids,
                     data |-> NoneUD]]
  /\ ledger_hist' = [ledger_hist EXCEPT
                       !.begun = @ + 1,
                       !.overlapped = @ \/ \E o \in Updaters \ {p} : updaters[o].pc # "idle"]
  /\ UNCHANGED << impl, probe, last_answer, firebase_available, user_doc, fb_cache, app_cache, session_vars,
                  dm_progress, answer_trail, last_pick, answers_total >>

(* lines 87-92: user_ref.get(); a missing document returns False *)
UpdateGet(p) ==
  /\ updaters[p].pc = "get"
  /\ updaters' = [updaters EXCEPT ![p] =
                    IF user_doc.exists
                    THEN [@ EXCEPT !.pc = "update", !.data = get_user(TRUE, user_doc)]
                    ELSE IdleUpdater]
  /\ UNCHANGED << impl, probe, last_answer, firebase_available, user_doc, fb_cache, app_cache, session_vars,
                  dm_progress, ledger_hist, answer_trail, last_pick, answers_total >>

(* lines 93-108: the update computed from the document as read, then user_ref.update *)
UpdateWrite(p) ==
  /\ updaters[p].pc = "update"
  /\ LET u == updaters[p]
         doc == apply_update(user_doc, update_data(u.data, u.best_score, u.new_ids))
     IN /\ user_doc' = doc
        /\ ledger_hist' = [ledger_hist EXCEPT
                             !.requested = @ \cup u.new_ids,
                             !.max_score = Max2(@, u.best_score),
                             !.last = [ids |-> u.new_ids, score |-> u.best_score,
                                       before |-> user_doc.answered_questions,
                                       after |-> doc.answered_questions]]
  /\ updaters' = [updaters EXCEPT ![p] = IdleUpdater]
  /\ UNCHANGED << impl, probe, last_answer, firebase_available, fb_cache, app_cache, session_vars,
                  dm_progress, answer_trail, last_pick, answers_total >>

(* DataManager.end_session, lines 163-167 *)
end_session_best(best_score, final_score) ==
  IF final_score > best_score THEN final_score ELSE best_score

DMEndSession(final_score) ==
  /\ ledger_hist.begun < MaxUpdates
  /\ dm_progress' = [dm_progress EXCEPT !.best_score = end_session_best(@, final_score)]
  /\ ledger_hist' = [ledger_hist EXCEPT !.begun = @ + 1,
                                        !.dm_max = Max2(@, final_score)]
  /\ UNCHANGED << impl, probe, last_answer, firebase_available, user_doc, fb_cache, app_cache, session_vars,
                  updaters, answer_trail, last_pick, answers_total >>

NextLedger ==
  \/ \E p \in Updaters, t \in 0 .. MaxTotal, ids \in NewIdSets : UpdateCall(p, t, ids)
  \/ \E p \in Updaters : UpdateGet(p)
  \/ \E p \in Updaters : UpdateWrite(p)
  \/ \E t \in 0 .. MaxTotal : DMEndSession(t)

SpecLedger == InitLedger /\ [][NextLedger]_vars

----------------------------------------------------------------------------
(* Functions on their own: one call of select_question or of            *)
(* is_topic_unlocked on arguments drawn from the lists over the bank,   *)
(* the levels, the sets of ids and the learner records.                 *)

(* the lists of questions a caller can pass: the bank with some left out *)
Pools == {SelectSeq(AllQuestions, LAMBDA q : q \in S) : S \in SUBSET QIds}

(* the learner records get_user_data can return *)
UserRecords ==
  {NoneUD} \cup {[none |-> FALSE, best_score |-> 0, answered_questions |-> SetToBag(S)] :
                   S \in SUBSET QIds}

SelectArgs ==
  [fn : {"select_question"}, questions : Pools, current_level : Range(DIFFICULTY_LEVELS),
   excluded_ids : SUBSET QIds, done : {FALSE}, result : {None}]

GateArgs ==
  [fn : {"is_topic_unlocked"}, topic : DOMAIN TOPICS, user_data : UserRecords,
   questions : Pools, done : {FALSE}, result : {FALSE}]

(* the entries a stored topic_progress can hold for a topic: the one       *)
(* update_topic_progress writes after an attempt, and one with the flag    *)
(* the other way round                                                     *)
ProgressEntries(t) ==
  {update_topic_progress(<< >>, t, TRUE)[t], [attempts |-> 2, unlocked |-> t # HT]}

StoredProgress ==
  UNION {[S -> UNION {ProgressEntries(t) : t \in S}] : S \in SUBSET DOMAIN TOPICS}

ProgressOptions == {p \in StoredProgress : \A t \in DOMAIN p : p[t] \in ProgressEntries(t)}

(* the lists the topics page can hold in st.session_state.questions *)
PagePools == {AllQuestions, TopicQuestions(AllQuestions, HT), TopicQuestions(AllQuestions, OS)}

(* two records of one learner: the same answered_questions, any two *)
(* topic_progress                                                   *)
GatePairArgs ==
  [fn : {"is_topic_unlocked twice"}, topic : DOMAIN TOPICS, answered : SUBSET {1, 5},
   progress : ProgressOptions, other_progress : ProgressOptions,
   questions : PagePools, done : {FALSE}, result : {FALSE}, other_result : {FALSE}]

(* the record get_user returns for a stored document with topic_progress *)
UserRecordWith(answered, progress) ==
  [none |-> FALSE, best_score |-> 0, answered_questions |-> SetToBag(answered),
   topic_progress |-> progress]

StatsArgs ==
  [fn : {"get_topic_stats"}, topic : DOMAIN TOPICS, user_data : UserRecords,
   questions : Pools, done : {FALSE}, result : {default_stats(HT)}]

(* the documents of the users collection a call of                       *)
(* update_user_best_and_answers can find: none, or one with a name, a    *)
(* best score, a list of mastered ids (q1 possibly twice) and the        *)
(* progress of topics                                                    *)
StoredDocs ==
  {[exists |-> FALSE, display_name |-> "", best_score |-> 0,
    answered_questions |-> EmptyBag, topic_progress |-> << >>]}
  \cup {[exists |-> TRUE, display_name |-> "ada", best_score |-> b,
         answered_questions |-> a, topic_progress |-> p] :
          b \in 0 .. 2,
          a \in {EmptyBag, SetToBag({1}), SetToBag({1, 2}), SetToBag({1}) (+) SetToBag({1})},
          p \in {<< >>, update_topic_progress(<< >>, HT, TRUE)}}

(* what a caller passes as updated_data: nothing, a record without       *)
(* topic_progress, or the record end_quiz got from update_topic_progress *)
UpdatedDataOptions ==
  {NoUpdatedData, [none |-> FALSE, best_score |-> 0],
   [none |-> FALSE, best_score |-> 0,
    topic_progress |-> update_topic_progress(update_topic_progress(<< >>, HT, TRUE), OS, TRUE)]}

UpdateArgs ==
  {[fn |-> "update_user_best_and_answers", db_ok |-> ok, doc |-> d, best_score |-> b,
    new_answered_ids |-> ids, updated_data |-> u, done |-> FALSE, result |-> FALSE,
    after |-> d] :
     ok \in BOOLEAN, d \in StoredDocs, b \in 0 .. 2, ids \in SUBSET {1, 3},
     u \in UpdatedDataOptions}

(* the game state of the session at the time of a call of select_question: *)
(* the one of an attempt that has just begun, and the one after question 1 *)
(* was answered correctly                                                  *)
CallStates ==
  {init_user_game_state, score_update(init_user_game_state, 1, TRUE, PointsFor(1))}

InitCalls ==
  /\ probe \in SelectArgs \cup GateArgs \cup StatsArgs \cup GatePairArgs \cup UpdateArgs
  /\ impl = "game_logic"
  /\ firebase_available = TRUE
  /\ user_doc = NewUserDoc
  /\ fb_cache = EmptyCache
  /\ app_cache = EmptyCache
  /\ game_state \in (IF probe.fn = "select_question" THEN CallStates ELSE {NoState})
  /\ attempt_meta = NoState
  /\ current_question = None
  /\ game_active = FALSE
  /\ page = "home"
  /\ answer_submitted = FALSE
  /\ current_topic = ""
  /\ session_questions = AllQuestions
  /\ updaters = [p \in Updaters |-> IdleUpdater]
  /\ dm_progress = [best_score |-> 0]
  /\ ledger_hist = NoHistory
  /\ answer_trail = << >>
  /\ last_pick = NoPick
  /\ answers_total = 0
  /\ last_answer = NoAnswer

(* select_question that also marks the question it returns as used *)
SelectCall_marks_used ==
  /\ probe.fn = "select_question"
  /\ ~probe.done
  /\ LET candidates == select_question(probe.questions, probe.current_level,
                                       probe.excluded_ids)
     IN \E r \in (IF candidates = {} THEN {None} ELSE candidates) :
          probe' = [probe EXCEPT !.done = TRUE, !.result = r,
                                 !.excluded_ids = @ \cup ({r} \ {None})]
  /\ UNCHANGED << impl, firebase_available, user_doc, fb_cache, app_cache, session_vars,
                  ledger_vars, answer_trail, last_pick, answers_total, last_answer >>

(* select_question, lines 303-309: None without candidates, else *)
(* random.choice(candidates)                                     *)
SelectCall ==
  /\ probe.fn = "select_question"
  /\ ~probe.done
  /\ LET candidates == select_question(probe.questions, probe.current_level,
                                       probe.excluded_ids)
     IN \E r \in (IF candidates = {} THEN {None} ELSE candidates) :
          probe' = [probe EXCEPT !.done = TRUE, !.result = r]
  /\ UNCHANGED << impl, firebase_available, user_doc, fb_cache, app_cache, session_vars,
                  ledger_vars, answer_trail, last_pick, answers_total, last_answer >>

(* is_topic_unlocked(topic, user_data, questions) *)
GateCall ==
  /\ probe.fn = "is_topic_unlocked"
  /\ ~probe.done
  /\ probe' = [probe EXCEPT !.done = TRUE,
                            !.result = is_topic_unlocked(probe.topic, probe.user_data,
                                                         probe.questions)]
  /\ UNCHANGED << impl, firebase_available, user_doc, fb_cache, app_cache, session_vars,
                  ledger_vars, answer_trail, last_pick, answers_total, last_answer >>

(* get_topic_stats(user_data, questions, topic) *)
StatsCall ==
  /\ probe.fn = "get_topic_stats"
  /\ ~probe.done
  /\ probe' = [probe EXCEPT !.done = TRUE,
                            !.result = get_topic_stats(probe.user_data, probe.questions,
                                                       probe.topic)]
  /\ UNCHANGED << impl, firebase_available, user_doc, fb_cache, app_cache, session_vars,
                  ledger_vars, answer_trail, last_pick, answers_total, last_answer >>

(* is_topic_unlocked called for each of the two records *)
GatePairCall ==
  /\ probe.fn = "is_topic_unlocked twice"
  /\ ~probe.done
  /\ probe' = [probe EXCEPT
                 !.done = TRUE,
                 !.result = is_topic_unlocked(
                              probe.topic, UserRecordWith(probe.answered, probe.progress),
                              probe.questions),
                 !.other_result = is_topic_unlocked(
                              probe.topic, UserRecordWith(probe.answered, probe.other_progress),
                              probe.questions)]
  /\ UNCHANGED << impl, firebase_available, user_doc, fb_cache, app_cache, session_vars,
                  ledger_vars, answer_trail, last_pick, answers_total, last_answer >>

(* update_user_best_and_answers(email, best_score, new_answered_ids, *)
(* updated_data): what it returns and what the document is afterwards *)
UpdateRecordCall ==
  /\ probe.fn = "update_user_best_and_answers"
  /\ ~probe.done
  /\ LET w == update_user_best_and_answers_with(probe.db_ok, probe.doc, probe.best_score,
                                                probe.new_answered_ids, probe.updated_data)
     IN probe' = [probe EXCEPT !.done = TRUE, !.result = w.ok, !.after = w.doc]
  /\ UNCHANGED << impl, firebase_available, user_doc, fb_cache, app_cache, session_vars,
                  ledger_vars, answer_trail, last_pick, answers_total, last_answer >>

NextCalls == SelectCall \/ GateCall \/ StatsCall \/ GatePairCall \/ UpdateRecordCall

SpecCalls == InitCalls /\ [][NextCalls]_vars

----------------------------------------------------------------------------
(* The session of a learner who comes back: the document already holds *)
(* the ids mastered in earlier sessions.                               *)

(* the document after questions 1, 2 and 3 were answered correctly in *)
(* one earlier attempt                                                *)
ReturningUserDoc ==
  [exists |-> TRUE, best_score |-> 6, answered_questions |-> SetToBag({1, 2, 3})]

InitReturning ==
  /\ impl \in Impls
  /\ firebase_available = TRUE
  /\ user_doc = ReturningUserDoc
  /\ fb_cache = EmptyCache
  /\ app_cache = EmptyCache
  /\ game_state = NoState
  /\ attempt_meta = NoState
  /\ current_question = None
  /\ game_active = FALSE
  /\ page = "home"
  /\ answer_submitted = FALSE
  /\ current_topic = ""
  /\ session_questions = AllQuestions
  /\ updaters = [p \in Updaters |-> IdleUpdater]
  /\ dm_progress = [best_score |-> 0]
  /\ ledger_hist = NoHistory
  /\ answer_trail = << >>
  /\ last_pick = NoPick
  /\ answers_total = 0
  /\ last_answer = NoAnswer
  /\ probe = NoProbe

SpecReturning == InitReturning /\ [][Next]_vars

----------------------------------------------------------------------------
(* Attempt reporter (report_utils.py): the functions the results page   *)
(* applies to the attempt log.  A ratio that the code computes as a     *)
(* float is kept as numerator and denominator and compared exactly; a   *)
(* dict is kept as the sequence of its keys in insertion order with its *)
(* values; the tuple (concept, accuracy, points_ratio) is a record.     *)

(* correct / attempts if attempts > 0 else 0 *)
Ratio(n, d) == IF d > 0 THEN [num |-> n, den |-> d] ELSE [num |-> 0, den |-> 1]

RatioGE(r, s) == r.num * s.den >= s.num * r.den

RatioLE(r, s) == r.num * s.den <= s.num * r.den

threshold_strength == [num |-> 7, den |-> 10]

threshold_weakness == [num |-> 4, den |-> 10]

(* the slices [:3] of lines 90-91 and [:5] of line 134 *)
KeptPerList == 3
KeptRecommendations == 5

Take(s, n) == IF Len(s) <= n THEN s ELSE SubSeq(s, 1, n)

(* str(q.get("difficulty", 1)) *)
DifficultyKey(d) == IF d = 1 THEN "1" ELSE IF d = 2 THEN "2" ELSE IF d = 3 THEN "3" ELSE "?"

(* get_difficulty_breakdown, lines 27-49, after the first n records *)
RECURSIVE difficulty_stats_after(_, _)
difficulty_stats_after(questions, n) ==
  IF n = 0 THEN [k \in {"1", "2", "3"} |-> [total |-> 0, correct |-> 0]]
  ELSE LET q == questions[n]
           diff == DifficultyKey(q.difficulty)
       IN [difficulty_stats_after(questions, n - 1) EXCEPT
             ![diff].total = @ + 1,
             ![diff].correct = @ + (IF q.correct THEN 1 ELSE 0)]

(* get_difficulty_breakdown with every record counted as correct *)
get_difficulty_breakdown_all_correct(questions) ==
  [k \in {"1", "2", "3"} |->
     [total |-> difficulty_stats_after(questions, Len(questions))[k].total,
      correct |-> difficulty_stats_after(questions, Len(questions))[k].total]]

get_difficulty_breakdown(questions) == difficulty_stats_after(questions, Len(questions))

NewConceptStats == [attempts |-> 0, correct |-> 0, points |-> 0, total_possible |-> 0]

(* lines 59-71: one record counted for the concepts of its list, in order *)
RECURSIVE count_concepts(_, _, _)
count_concepts(concept_stats, q, concepts) ==
  IF concepts = << >> THEN concept_stats
  ELSE LET concept == Head(concepts)
           known == concept \in Range(concept_stats.keys)
           keys == IF known THEN concept_stats.keys ELSE Append(concept_stats.keys, concept)
           old == IF known THEN concept_stats.values[concept] ELSE NewConceptStats
           new == [attempts |-> old.attempts + 1,
                   correct |-> old.correct + (IF q.correct THEN 1 ELSE 0),
                   points |-> old.points + q.pts_awarded,
                   total_possible |-> old.total_possible + q.difficulty]
       IN count_concepts(
            [keys |-> keys,
             values |-> [c \in Range(keys) |-> IF c = concept THEN new
                                               ELSE concept_stats.values[c]]],
            q, Tail(concepts))

RECURSIVE concept_stats_after(_, _)
concept_stats_after(questions, n) ==
  IF n = 0 THEN [keys |-> << >>, values |-> << >>]
  ELSE count_concepts(concept_stats_after(questions, n - 1), questions[n],
                      questions[n].concepts)

(* get_concept_performance with a record counted for its first concept only *)
get_concept_performance_first_tag(questions) ==
  concept_stats_after(
    [i \in 1 .. Len(questions) |->
       [questions[i] EXCEPT !.concepts = Take(@, 1)]], Len(questions))

(* get_concept_performance, lines 53-73 *)
get_concept_performance(questions) == concept_stats_after(questions, Len(questions))

(* sorted(..., key=lambda x: x[1], reverse=True): stable, highest accuracy first *)
RECURSIVE insert_descending(_, _)
insert_descending(sorted, x) ==
  IF sorted = << >> THEN << x >>
  ELSE IF RatioGE(Head(sorted).accuracy, x.accuracy)
       THEN << Head(sorted) >> \o insert_descending(Tail(sorted), x)
       ELSE << x >> \o sorted

RECURSIVE sorted_descending(_, _)
sorted_descending(items, n) ==
  IF n = 0 THEN << >> ELSE insert_descending(sorted_descending(items, n - 1), items[n])

(* sorted(..., key=lambda x: x[1]): stable, lowest accuracy first *)
RECURSIVE insert_ascending(_, _)
insert_ascending(sorted, x) ==
  IF sorted = << >> THEN << x >>
  ELSE IF RatioLE(Head(sorted).accuracy, x.accuracy)
       THEN << Head(sorted) >> \o insert_ascending(Tail(sorted), x)
       ELSE << x >> \o sorted

RECURSIVE sorted_ascending(_, _)
sorted_ascending(items, n) ==
  IF n = 0 THEN << >> ELSE insert_ascending(sorted_ascending(items, n - 1), items[n])

(* lines 81-82 *)
concept_tuple(concept_stats, concept) ==
  LET stats == concept_stats.values[concept]
  IN [concept |-> concept,
      accuracy |-> Ratio(stats.correct, stats.attempts),
      points_ratio |-> Ratio(stats.points, stats.total_possible)]

(* line 84 *)
is_strength(t) ==
  RatioGE(t.accuracy, threshold_strength) /\ RatioGE(t.points_ratio, threshold_strength)

(* line 86, reached when line 84 is false *)
is_weakness(t) ==
  /\ ~is_strength(t)
  /\ RatioLE(t.accuracy, threshold_weakness) \/ RatioLE(t.points_ratio, threshold_weakness)

(* the tuples of the concepts, in the order of concept_stats.items() *)
concept_tuples(concept_stats) ==
  [i \in 1 .. Len(concept_stats.keys) |-> concept_tuple(concept_stats, concept_stats.keys[i])]

(* analyze_strengths_weaknesses with the weakness test made on the accuracy alone *)
analyze_strengths_weaknesses_accuracy_only(concept_stats) ==
  LET tuples == concept_tuples(concept_stats)
      strengths == SelectSeq(tuples, is_strength)
      weaknesses == SelectSeq(tuples, LAMBDA t : ~is_strength(t)
                                                 /\ RatioLE(t.accuracy, threshold_weakness))
  IN [strengths |-> Take(sorted_descending(strengths, Len(strengths)), KeptPerList),
      weaknesses |-> Take(sorted_ascending(weaknesses, Len(weaknesses)), KeptPerList)]

(* analyze_strengths_weaknesses, lines 77-92, with the default thresholds *)
analyze_strengths_weaknesses(concept_stats) ==
  LET tuples == concept_tuples(concept_stats)
      strengths == SelectSeq(tuples, is_strength)
      weaknesses == SelectSeq(tuples, is_weakness)
  IN [strengths |-> Take(sorted_descending(strengths, Len(strengths)), KeptPerList),
      weaknesses |-> Take(sorted_ascending(weaknesses, Len(weaknesses)), KeptPerList)]

(* lines 120-132: the two records of each weakness, in order *)
RECURSIVE recommendations_for(_)
recommendations_for(weaknesses) ==
  IF weaknesses = << >> THEN << >>
  ELSE << [type |-> "lecture", concept |-> Head(weaknesses).concept],
          [type |-> "practice", concept |-> Head(weaknesses).concept] >>
       \o recommendations_for(Tail(weaknesses))

(* generate_recommendations returning every record *)
generate_recommendations_uncut(weaknesses) == recommendations_for(weaknesses)

(* generate_recommendations, lines 118-134 *)
generate_recommendations(weaknesses) ==
  Take(recommendations_for(weaknesses), KeptRecommendations)

----------------------------------------------------------------------------
(* The reporter on its own: one function of the results page applied to *)
(* an attempt log of up to MaxLog records.                              *)

(* the concepts lists of the questions: no concept, one, or several *)
TagLists ==
  {<< >>, <<"mean">>, <<"variance">>, <<"mean", "variance">>,
   <<"mean", "variance", "median">>, <<"mean", "variance", "median", "mode">>}

(* the record process_answer appends (game_logic.py lines 320-332), with *)
(* the fields the reporter reads                                         *)
report_entry(concepts, difficulty, correct) ==
  [concepts |-> concepts, difficulty |-> difficulty, correct |-> correct,
   pts_awarded |-> IF correct THEN PointsFor(difficulty) ELSE 0]

ReportRecords ==
  {report_entry(c, d, k) : c \in TagLists, d \in Range(DIFFICULTY_LEVELS), k \in BOOLEAN}

AttemptLogs == UNION {[1 .. n -> ReportRecords] : n \in 0 .. MaxLog}

ReportFunctions ==
  {"get_difficulty_breakdown", "get_concept_performance",
   "analyze_strengths_weaknesses", "generate_recommendations"}

ReportArgs ==
  [fn : ReportFunctions, questions : AttemptLogs, done : {FALSE}, result : {None}]

InitReport ==
  /\ impl = "app"
  /\ firebase_available = TRUE
  /\ user_doc = NewUserDoc
  /\ fb_cache = EmptyCache
  /\ app_cache = EmptyCache
  /\ game_state = NoState
  /\ attempt_meta = NoState
  /\ current_question = None
  /\ game_active = FALSE
  /\ page = "results"
  /\ answer_submitted = FALSE
  /\ current_topic = ""
  /\ session_questions = AllQuestions
  /\ updaters = [p \in Updaters |-> IdleUpdater]
  /\ dm_progress = [best_score |-> 0]
  /\ ledger_hist = NoHistory
  /\ answer_trail = << >>
  /\ last_pick = NoPick
  /\ answers_total = 0
  /\ last_answer = NoAnswer
  /\ probe \in ReportArgs

(* get_difficulty_breakdown(attempt["questions_attempted"]) *)
DifficultyBreakdownCall ==
  /\ probe.fn = "get_difficulty_breakdown"
  /\ ~probe.done
  /\ probe' = [probe EXCEPT !.done = TRUE,
                            !.result = get_difficulty_breakdown(probe.questions)]
  /\ UNCHANGED << impl, firebase_available, user_doc, fb_cache, app_cache, session_vars,
                  ledger_vars, answer_trail, last_pick, answers_total, last_answer >>

(* get_concept_performance(attempt["questions_attempted"]), app.py line 831 *)
ConceptPerformanceCall ==
  /\ probe.fn = "get_concept_performance"
  /\ ~probe.done
  /\ probe' = [probe EXCEPT !.done = TRUE,
                            !.result = get_concept_performance(probe.questions)]
  /\ UNCHANGED << impl, firebase_available, user_doc, fb_cache, app_cache, session_vars,
                  ledger_vars, answer_trail, last_pick, answers_total, last_answer >>

(* analyze_strengths_weaknesses(concept_stats), app.py lines 831-839 *)
AnalyzeCall ==
  /\ probe.fn = "analyze_strengths_weaknesses"
  /\ ~probe.done
  /\ probe' = [probe EXCEPT
                 !.done = TRUE,
                 !.result = analyze_strengths_weaknesses(
                              get_concept_performance(probe.questions))]
  /\ UNCHANGED << impl, firebase_available, user_doc, fb_cache, app_cache, session_vars,
                  ledger_vars, answer_trail, last_pick, answers_total, last_answer >>

(* generate_recommendations(analysis["weaknesses"]), app.py lines 831-894 *)
RecommendCall ==
  /\ probe.fn = "generate_recommendations"
  /\ ~probe.done
  /\ LET analysis == analyze_strengths_weaknesses(get_concept_performance(probe.questions))
     IN probe' = [fn |-> probe.fn, questions |-> probe.questions, done |-> TRUE,
                  weaknesses |-> analysis.weaknesses,
                  result |-> generate_recommendations(analysis.weaknesses)]
  /\ UNCHANGED << impl, firebase_available, user_doc, fb_cache, app_cache, session_vars,
                  ledger_vars, answer_trail, last_pick, answers_total, last_answer >>

NextReport ==
  \/ DifficultyBreakdownCall
  \/ ConceptPerformanceCall
  \/ AnalyzeCall
  \/ RecommendCall

SpecReport == InitReport /\ [][NextReport]_vars

----------------------------------------------------------------------------
(* The session with the topics page rendered: what render_topics shows is *)
(* recorded, with what it showed before.                                  *)

(* render_topics, lines 275-305: the record is read and is_topic_unlocked *)
(* is evaluated for every topic on st.session_state.questions; a read     *)
(* that raises ends the run of the script with nothing evaluated          *)
RenderTopics(fails) ==
  /\ page = "topics"
  /\ ~game_active
  /\ LET r == IF firebase_available
              THEN fb_get_user_data(fb_cache, firebase_available, user_doc, fails)
              ELSE [raised |-> FALSE, value |-> NoneUD, cache |-> fb_cache]
         unlocked == {t \in DOMAIN TOPICS : is_topic_unlocked(t, r.value, session_questions)}
     IN /\ ~r.raised
        /\ fb_cache' = r.cache
        /\ probe' = [fn |-> "render_topics", unlocked |-> unlocked,
                     before |-> IF probe.fn = "render_topics"
                                THEN probe.before \cup probe.unlocked ELSE {}]
  /\ UNCHANGED << impl, firebase_available, user_doc, app_cache, session_vars, ledger_vars,
                  answer_trail, last_pick, answers_total, last_answer >>

NextTopics ==
  \/ Next
  \/ \E f \in BOOLEAN : RenderTopics(f)

SpecTopics == Init /\ [][NextTopics]_vars

----------------------------------------------------------------------------
(* The quiz page of app.py against the clock: probe holds the reading of *)
(* time.time() and the start_time that start_quiz put into attempt_meta. *)

(* render_game, lines 561-562 *)
time_left(now, start_time) == Max2(0, QUIZ_DURATION_SECONDS - (now - start_time))

(* the test of line 564 with < in place of <= *)
time_is_up_below_zero(now, start_time) == time_left(now, start_time) < 0

(* render_game, line 564 *)
time_is_up(now, start_time) == time_left(now, start_time) <= 0

InitTimed ==
  /\ impl = "app"
  /\ firebase_available = TRUE
  /\ user_doc = NewUserDoc
  /\ fb_cache = EmptyCache
  /\ app_cache = EmptyCache
  /\ game_state = NoState
  /\ attempt_meta = NoState
  /\ current_question = None
  /\ game_active = FALSE
  /\ page = "home"
  /\ answer_submitted = FALSE
  /\ current_topic = ""
  /\ session_questions = AllQuestions
  /\ updaters = [p \in Updaters |-> IdleUpdater]
  /\ dm_progress = [best_score |-> 0]
  /\ ledger_hist = NoHistory
  /\ answer_trail = << >>
  /\ last_pick = NoPick
  /\ answers_total = 0
  /\ last_answer = NoAnswer
  /\ probe = [fn |-> "clock", now |-> 0, start_time |-> 0, late_submit |-> FALSE]

(* time passes during an attempt (the clock is read on the quiz page only) *)
Tick ==
  /\ game_active
  /\ probe.now < MaxClock
  /\ probe' = [probe EXCEPT !.now = @ + 1]
  /\ UNCHANGED << impl, firebase_available, user_doc, fb_cache, app_cache, session_vars,
                  ledger_vars, answer_trail, last_pick, answers_total, last_answer >>

(* start_quiz, line 491: start_time is the clock at the start of the attempt *)
TimedStart(topic, fails) ==
  /\ start_topic_quiz(topic, fails)
  /\ probe' = [probe EXCEPT !.start_time = probe.now, !.late_submit = FALSE]

(* render_game, lines 561-568: a run of the quiz page with no time left, *)
(* whether it was caused by a click on Submit Answer or not              *)
TimeUp(clicked, fails_read, fails_log, fails_write) ==
  /\ game_active
  /\ time_is_up(probe.now, probe.start_time)
  /\ end_quiz(fb_cache, app_cache, fails_read, fails_log, fails_write)
  /\ probe' = [probe EXCEPT !.late_submit =
                              clicked /\ current_question # None /\ ~answer_submitted]
  /\ UNCHANGED << impl, last_answer, firebase_available, game_state, attempt_meta,
                  current_question, answer_submitted, current_topic, session_questions,
                  ledger_vars, answer_trail, last_pick, answers_total >>

(* render_game, lines 570-580, reached with time left *)
TimedFetch(fails, fails_read, fails_log, fails_write) ==
  /\ ~time_is_up(probe.now, probe.start_time)
  /\ AppFetch(fails, fails_read, fails_log, fails_write)

(* render_game, lines 643-651, reached with time left *)
TimedSubmit(selected, fails, fails_read, fails_write) ==
  /\ ~time_is_up(probe.now, probe.start_time)
  /\ answers_total < MaxTimedAnswers
  /\ AppSubmit(selected, fails, fails_read, fails_write)

NextTimed ==
  \/ NavTopics
  \/ \E t \in DOMAIN TOPICS, f \in BOOLEAN : TimedStart(t, f)
  \/ FbCacheExpire
  \/ AppCacheExpire
  \/ Tick
  \/ \E f1, f2, f3 \in BOOLEAN : EndQuiz(f1, f2, f3)
  \/ \E c, f1, f2, f3 \in BOOLEAN : TimeUp(c, f1, f2, f3)
  \/ \E f, f1, f2, f3 \in BOOLEAN : TimedFetch(f, f1, f2, f3)
  \/ \E sel \in Selections, f, f1, f2 \in BOOLEAN : TimedSubmit(sel, f, f1, f2)

SpecTimed == InitTimed /\ [][NextTimed]_vars

TypeOK ==
  /\ impl \in Impls
  /\ game_active \in BOOLEAN
  /\ current_question \in QIds \cup {None}

----------------------------------------------------------------------------
(* Properties *)

HasAttempt == game_state # NoState

LastAnswer == answer_trail[Len(answer_trail)]

(* C1: in every reachable state of an attempt, after any sequence of correct *)
(* and incorrect answers, current_level is one of the levels 1, 2, 3.        *)
C1_LevelInRange ==
  HasAttempt => game_state.current_level \in {1, 2, 3}

(* a third correct answer in a row has just been given at the top level *)
C1_Witness ==
  /\ game_state.current_level = MaxLevel
  /\ answer_trail # << >>
  /\ LastAnswer.correct
  /\ LastAnswer.level_before = MaxLevel
  /\ LastAnswer.streak_before = CORRECTS_TO_PROMOTE - 1

ThreeCorrectFromZero ==
  /\ Len(answer_trail) = CORRECTS_TO_PROMOTE
  /\ \A i \in 1 .. CORRECTS_TO_PROMOTE : answer_trail[i].correct
  /\ answer_trail[1].streak_before = 0
  /\ answer_trail[1].level_before < MaxLevel

(* C2: when the last three answers were all correct and the first of them *)
(* found streak_at_level = 0 at a level L below 3, the level was still L  *)
(* after the first and the second, is L + 1 after the third, and          *)
(* streak_at_level is 0 after the third.                                  *)
C2_PromotionLaw ==
  ThreeCorrectFromZero =>
    LET L == answer_trail[1].level_before
    IN /\ answer_trail[1].level_after = L
       /\ answer_trail[2].level_after = L
       /\ answer_trail[3].level_after = L + 1
       /\ answer_trail[3].streak_after = 0
       /\ game_state.current_level = L + 1
       /\ game_state.streak_at_level = 0

(* three correct answers in a row from streak 0 at level 2 *)
C2_Witness ==
  /\ ThreeCorrectFromZero
  /\ answer_trail[1].level_before = 2
  /\ game_state.current_level = 3

(* C3: an incorrect answer leaves current_level at max(1, level before - 1) *)
(* and leaves streak_at_level and current_streak at 0.                      *)
C3_DemotionLaw ==
  (answer_trail # << >> /\ ~LastAnswer.correct) =>
    /\ LastAnswer.level_after = Max2(1, LastAnswer.level_before - 1)
    /\ LastAnswer.streak_after = 0
    /\ LastAnswer.current_streak_after = 0
    /\ game_state.current_level = LastAnswer.level_after
    /\ game_state.streak_at_level = 0
    /\ game_state.current_streak = 0

(* a wrong answer at level 2 that ends a running streak *)
C3_Witness ==
  /\ answer_trail # << >>
  /\ ~LastAnswer.correct
  /\ LastAnswer.level_before = 2
  /\ LastAnswer.streak_before > 0
  /\ game_state.current_level = 1

NoDuplicates(seq) == \A i, j \in 1 .. Len(seq) : seq[i] = seq[j] => i = j

(* C4: in every reachable state of an attempt no question id appears twice *)
(* in answered_this_attempt.                                               *)
C4_NoDuplicateAnswered ==
  HasAttempt => NoDuplicates(game_state.answered_this_attempt)

(* C5: a question returned as the next question, by get_next_question or by *)
(* the selection inside process_answer / handle_answer, is not among the    *)
(* ids of answered_this_attempt at that moment.                             *)
C5_NeverReofferAnswered ==
  last_pick.q # None => last_pick.q \notin last_pick.answered

(* the selection after an answer fell back to a question off the current level *)
C5_Witness ==
  /\ last_pick.by = "process_answer"
  /\ last_pick.q # None
  /\ Cardinality(last_pick.answered) >= 2
  /\ Bank[last_pick.q].difficulty # game_state.current_level

(* C6: a question returned as the next question is not in the learner's *)
(* persisted mastery set at that moment.                                *)
C6_NeverReofferMastered ==
  last_pick.q # None => last_pick.q \notin last_pick.mastered

AllIdle == \A p \in Updaters : updaters[p].pc = "idle"

(* C7: once the ledger updates of one learner have all returned, however *)
(* their reads and writes interleaved, the persisted answered_questions  *)
(* holds every id that any of them added.                                *)
C7_NoLostUpdate ==
  AllIdle => ledger_hist.requested \subseteq Persisted

(* C8: no step of any interleaving of ledger updates lowers the persisted *)
(* best_score or removes an id from the persisted mastery set.            *)
C8_LedgerMonotone ==
  [][/\ user_doc'.best_score >= user_doc.best_score
     /\ BagToSet(user_doc.answered_questions) \subseteq BagToSet(user_doc'.answered_questions)]_vars

(* C9: after any number of ledger commits made one after the other with the *)
(* totals T1..TN, in any order, the persisted best score is max(T1..TN);    *)
(* the same holds of DataManager.end_session.                               *)
C9_BestIsRunningMax ==
  /\ (AllIdle /\ ~ledger_hist.overlapped /\ firebase_available /\ user_doc.exists)
       => user_doc.best_score = ledger_hist.max_score
  /\ dm_progress.best_score = ledger_hist.dm_max

(* a lower total was committed after a higher one *)
C9_Witness ==
  /\ AllIdle
  /\ ~ledger_hist.overlapped
  /\ ledger_hist.max_score = 2
  /\ ledger_hist.last.score = 1
  /\ ledger_hist.last.after # EmptyBag
  /\ user_doc.best_score = 2

Recommit ==
  /\ ~ledger_hist.overlapped
  /\ ledger_hist.last.ids # {}
  /\ ledger_hist.last.ids \subseteq BagToSet(ledger_hist.last.before)

(* C10: the persisted mastery list holds each of its ids exactly once, and *)
(* committing ids that are already persisted leaves the list as it was     *)
(* after they were committed the first time.                               *)
C10_IdempotentMastery ==
  /\ \A q \in BagToSet(user_doc.answered_questions) :
       CopiesIn(q, user_doc.answered_questions) = 1
  /\ Recommit => ledger_hist.last.after = ledger_hist.last.before

(* an id has been committed a second time *)
C10_Witness ==
  /\ Recommit
  /\ AllIdle
  /\ user_doc.answered_questions = ledger_hist.last.after

AnswerStep == answers_total' = answers_total + 1

(* C12: a correct answer to a question of difficulty d adds exactly d to *)
(* total_points, whatever current_level is, and an incorrect answer adds *)
(* nothing.                                                              *)
C12_PointsByQuestionDifficulty ==
  [][AnswerStep =>
       game_state'.total_points - game_state.total_points
         = IF last_answer'.correct THEN last_answer'.difficulty ELSE 0]_vars

StoreAnswerStep == AnswerStep /\ impl \in {"app", "game_logic"} /\ firebase_available

(* C11: with the store available and its calls succeeding, a correct answer *)
(* processed by process_answer leaves the question's id in the persisted    *)
(* mastery set and an incorrect one leaves that set as it was; no later     *)
(* step of the session, the attempt being ended or not, removes an id.      *)
C11_CorrectAnswerIsPersisted ==
  [][/\ (StoreAnswerStep /\ ~last_answer'.io_failed) =>
          IF last_answer'.correct
          THEN last_answer'.q \in BagToSet(user_doc'.answered_questions)
          ELSE user_doc'.answered_questions = user_doc.answered_questions
     /\ BagToSet(user_doc.answered_questions) \subseteq BagToSet(user_doc'.answered_questions)]_vars

(* a correct answer has been committed and the attempt is still open *)
C11_Witness ==
  /\ impl \in {"app", "game_logic"}
  /\ firebase_available
  /\ game_active
  /\ last_answer.correct
  /\ ~last_answer.io_failed
  /\ last_answer.q \in Persisted

RECURSIVE SumAwarded(_)
SumAwarded(log) ==
  IF log = << >> THEN 0 ELSE Head(log).pts_awarded + SumAwarded(Tail(log))

Logged == impl \in {"app", "game_logic"}

(* C13: in every state of an attempt total_points is the sum of pts_awarded *)
(* over the records of the attempt log, and no step of the attempt lowers   *)
(* it (only the start of a new attempt sets it back to 0).                  *)
C13_TotalIsSumOfLog ==
  [][(Logged /\ game_state' # NoState) =>
       /\ game_state'.total_points = SumAwarded(attempt_meta'.questions_attempted)
       /\ \/ game_state = NoState
          \/ game_state'.total_points >= game_state.total_points
          \/ attempt_meta' = fresh_attempt_meta]_vars

(* two records in the log, one with points and one without *)
C13_Witness ==
  /\ Logged
  /\ game_state # NoState
  /\ Len(attempt_meta.questions_attempted) >= 2
  /\ game_state.total_points >= 2
  /\ \E i \in 1 .. Len(attempt_meta.questions_attempted) :
       attempt_meta.questions_attempted[i].pts_awarded = 0
  /\ game_state.total_points = SumAwarded(attempt_meta.questions_attempted)

(* C14: every answer processed appends exactly one record to the attempt   *)
(* log, for the question answered, with pts_awarded the points of the      *)
(* question's difficulty if the answer was correct and 0 if not; no other  *)
(* step changes the log, except the start of a new attempt, which opens an *)
(* empty one.                                                              *)
C14_LogAppendOnly ==
  [][(Logged /\ attempt_meta # NoState) =>
       IF AnswerStep
       THEN LET log == attempt_meta'.questions_attempted
                e == log[Len(log)]
            IN /\ Len(log) = Len(attempt_meta.questions_attempted) + 1
               /\ SubSeq(log, 1, Len(log) - 1) = attempt_meta.questions_attempted
               /\ e.id = current_question
               /\ e.correct = last_answer'.correct
               /\ e.pts_awarded = IF e.correct THEN Bank[e.id].difficulty ELSE 0
       ELSE \/ attempt_meta'.questions_attempted = attempt_meta.questions_attempted
            \/ attempt_meta' = fresh_attempt_meta]_vars

(* the log holds an incorrect answer followed by a correct answer to a *)
(* question worth more than one point                                  *)
C14_Witness ==
  /\ Logged
  /\ attempt_meta # NoState
  /\ \E i, j \in 1 .. Len(attempt_meta.questions_attempted) :
       /\ i < j
       /\ ~attempt_meta.questions_attempted[i].correct
       /\ attempt_meta.questions_attempted[i].pts_awarded = 0
       /\ attempt_meta.questions_attempted[j].correct
       /\ attempt_meta.questions_attempted[j].pts_awarded >= 2

Selected == probe.fn = "select_question" /\ probe.done

Eligible(questions, level, excluded) ==
  {q \in QIds : /\ \E i \in 1 .. Len(questions) : questions[i] = q
                /\ Bank[q].difficulty = level
                /\ q \notin excluded}

(* C15: select_question(pool, level, excluded) returns None or a question *)
(* of the pool whose difficulty is level and whose id is not excluded,    *)
(* and it returns None exactly when the pool holds no such question.      *)
C15_SelectQuestion ==
  Selected =>
    LET ok == Eligible(probe.questions, probe.current_level, probe.excluded_ids)
    IN /\ probe.result = None \/ probe.result \in ok
       /\ probe.result = None <=> ok = {}

(* a level-1 question was returned from a pool that also holds excluded *)
(* level-1 questions and questions of other levels                      *)
C15_Witness ==
  /\ Selected
  /\ probe.current_level = 1
  /\ probe.result # None
  /\ Bank[probe.result].difficulty = 1
  /\ \E q \in probe.excluded_ids :
       Bank[q].difficulty = 1 /\ \E i \in 1 .. Len(probe.questions) : probe.questions[i] = q
  /\ \E i \in 1 .. Len(probe.questions) : Bank[probe.questions[i]].difficulty = 2

EligibleIn(pool, level, excluded) ==
  {q \in pool : Bank[q].difficulty = level /\ q \notin excluded}

OtherLevelsWithEligible(pick) ==
  {l \in Range(DIFFICULTY_LEVELS) \ {pick.level} :
     EligibleIn(pick.pool, l, pick.excluded) # {}}

(* C16: when a selection finds no eligible question at current_level, the *)
(* question it returns is of the first level, in the order 1, 2, 3 and    *)
(* other than current_level, that has an eligible question; for the       *)
(* selection inside process_answer and for get_next_question.             *)
C16_FallbackInLevelOrder ==
  (/\ last_pick.q # None
   /\ EligibleIn(last_pick.pool, last_pick.level, last_pick.excluded) = {})
    => /\ OtherLevelsWithEligible(last_pick) # {}
       /\ \A l \in OtherLevelsWithEligible(last_pick) : Bank[last_pick.q].difficulty <= l
       /\ Bank[last_pick.q].difficulty \in OtherLevelsWithEligible(last_pick)

NewPick == last_pick' # last_pick /\ last_pick'.by # "none"

(* C17: a selection returns None if and only if every question of its pool *)
(* is mastered or already answered in the attempt; and when                *)
(* get_next_question returns None the attempt is ended: game_active is     *)
(* False and the page is the results page.                                 *)
C17_NoneIffExhausted ==
  [][NewPick =>
       /\ last_pick'.q = None
            <=> last_pick'.pool \subseteq (last_pick'.mastered \cup last_pick'.answered)
       /\ (last_pick'.by = "get_next_question" /\ last_pick'.q = None)
            => (~game_active' /\ page' = "results")]_vars

(* C18: when a store call fails while process_answer handles an answer, *)
(* the attempt stays active, the game state is the state before with    *)
(* the scoring update of that answer applied once, and current_question *)
(* is replaced by the next question.                                    *)
C18_StoreFailureKeepsAttempt ==
  [][(AnswerStep /\ Logged /\ last_answer'.io_failed) =>
       LET q == current_question
           points == IF last_answer'.correct THEN PointsFor(Bank[q].difficulty) ELSE 0
       IN /\ game_active'
          /\ game_state' = score_update(game_state, q, last_answer'.correct, points)
          /\ current_question' # current_question]_vars

GateChecked == probe.fn = "is_topic_unlocked" /\ probe.done

RECURSIVE SumDifficulty(_)
SumDifficulty(S) ==
  IF S = {} THEN 0
  ELSE LET q == CHOOSE x \in S : TRUE
       IN Bank[q].difficulty + SumDifficulty(S \ {q})

(* the points the learner has earned in the topics of the given ids: the *)
(* points of the mastered questions of those topics among the questions  *)
EarnedInTopics(ids, user_data, questions) ==
  SumDifficulty({q \in QIds : /\ \E i \in 1 .. Len(questions) : questions[i] = q
                              /\ \neg user_data.none
                              /\ q \in BagToSet(user_data.answered_questions)
                              /\ TOPICS[Bank[q].topic].id \in ids})

(* C20: for a topic with prerequisites is_topic_unlocked is True exactly *)
(* when the points earned over its direct prerequisite topics are at     *)
(* least its points_required.                                            *)
C20_UnlockedIffPrereqPoints ==
  (GateChecked /\ TOPICS[probe.topic].prerequisites # {}) =>
    (probe.result <=>
       EarnedInTopics(TOPICS[probe.topic].prerequisites, probe.user_data, probe.questions)
         >= TOPICS[probe.topic].points_required)

(* unlocked with exactly the points required: one mastered one-point *)
(* question of the prerequisite                                      *)
C20_Witness ==
  /\ GateChecked
  /\ probe.topic = OS
  /\ probe.result
  /\ EarnedInTopics(TOPICS[OS].prerequisites, probe.user_data, probe.questions)
       = TOPICS[OS].points_required

(* C21: the topic without prerequisites is unlocked for every learner *)
(* record, a missing or empty one included, and for every list of     *)
(* questions.                                                         *)
C21_RootAlwaysUnlocked ==
  (GateChecked /\ TOPICS[probe.topic].prerequisites = {}) => probe.result = TRUE

(* the root topic was evaluated for a missing record and no questions *)
C21_Witness ==
  /\ GateChecked
  /\ probe.topic = HT
  /\ probe.user_data.none
  /\ probe.questions = << >>
  /\ probe.result

StatsChecked == probe.fn = "get_topic_stats" /\ probe.done

(* the questions of a list that belong to a topic, and those of them the *)
(* learner has mastered                                                  *)
InTopic(questions, topic) ==
  {q \in QIds : /\ \E i \in 1 .. Len(questions) : questions[i] = q
                /\ Bank[q].topic = topic}

MasteredInTopic(user_data, questions, topic) ==
  {q \in InTopic(questions, topic) :
     ~user_data.none /\ q \in BagToSet(user_data.answered_questions)}

(* C22: get_topic_stats returns points = the points of the topic's        *)
(* questions in the learner's mastery set, total_points = the points of   *)
(* all questions of the topic, mastered and total_questions = the numbers *)
(* of those questions; so points <= total_points and mastered <=          *)
(* total_questions.                                                       *)
C22_TopicStats ==
  StatsChecked =>
    LET all == InTopic(probe.questions, probe.topic)
        got == MasteredInTopic(probe.user_data, probe.questions, probe.topic)
    IN /\ probe.result.points = SumDifficulty(got)
       /\ probe.result.total_points = SumDifficulty(all)
       /\ probe.result.mastered = Cardinality(got)
       /\ probe.result.total_questions = Cardinality(all)
       /\ probe.result.points <= probe.result.total_points
       /\ probe.result.mastered <= probe.result.total_questions

GatePairStep == probe.fn = "is_topic_unlocked twice" /\ ~probe.done /\ probe'.done

(* C23: two learner records with the same answered_questions and different *)
(* stored topic_progress (attempt counts, unlocked flags) get the same      *)
(* answer from is_topic_unlocked for every topic, and the call changes      *)
(* neither its arguments nor any state.                                     *)
C23_UnlockIgnoresStoredProgress ==
  [][GatePairStep =>
       /\ probe'.result = probe'.other_result
       /\ probe'.answered = probe.answered
       /\ probe'.progress = probe.progress
       /\ probe'.other_progress = probe.other_progress
       /\ probe'.questions = probe.questions
       /\ UNCHANGED << user_doc, fb_cache, app_cache, session_vars >>]_vars

(* unlocked by the points, for a record whose stored flag says locked *)
(* and one whose stored flag says unlocked                            *)
C23_Witness ==
  /\ probe.fn = "is_topic_unlocked twice"
  /\ probe.done
  /\ probe.topic = OS
  /\ OS \in DOMAIN probe.progress
  /\ ~probe.progress[OS].unlocked
  /\ OS \in DOMAIN probe.other_progress
  /\ probe.other_progress[OS].unlocked
  /\ probe.progress[OS].attempts # probe.other_progress[OS].attempts
  /\ probe.result
  /\ probe.other_result

C25_TopLevelStreakReset ==
  (answer_trail # << >> /\ LastAnswer.correct) =>
    /\ (LastAnswer.level_before = MaxLevel
        /\ LastAnswer.streak_before = CORRECTS_TO_PROMOTE - 1)
         => /\ LastAnswer.level_after = MaxLevel
            /\ LastAnswer.streak_after = 0
            /\ game_state.current_level = MaxLevel
            /\ game_state.streak_at_level = 0
    /\ LastAnswer.streak_before + 1 < CORRECTS_TO_PROMOTE
         => /\ LastAnswer.level_after = LastAnswer.level_before
            /\ LastAnswer.streak_after = LastAnswer.streak_before + 1
            /\ game_state.current_level = LastAnswer.level_before

(* three correct answers in a row, all given at level 3, the streak back *)
(* at 0                                                                  *)
C25_Witness ==
  /\ Len(answer_trail) = CORRECTS_TO_PROMOTE
  /\ \A i \in 1 .. CORRECTS_TO_PROMOTE :
       answer_trail[i].correct /\ answer_trail[i].level_before = MaxLevel
  /\ answer_trail[1].streak_before = 0
  /\ game_state.current_level = MaxLevel
  /\ game_state.streak_at_level = 0
  /\ game_state.current_streak >= 3 * CORRECTS_TO_PROMOTE

(* the length of the longest run of consecutive correct records of a log *)
LongestRun(log) ==
  LET runs == {0} \cup
              {p[2] - p[1] + 1 :
                 p \in {r \in (1 .. Len(log)) \X (1 .. Len(log)) :
                          r[1] <= r[2] /\ \A n \in r[1] .. r[2] : log[n].correct}}
  IN CHOOSE m \in runs : \A n \in runs : m >= n

(* C26: max_streak is at least current_streak in every state of an       *)
(* attempt, no step of the attempt lowers it, an incorrect answer leaves *)
(* it as it was, and it is the length of the longest run of consecutive  *)
(* correct answers of the attempt so far.                                *)
C26_MaxStreakHighWater ==
  [][game_state' # NoState =>
       /\ game_state'.max_streak >= game_state'.current_streak
       /\ Logged => game_state'.max_streak = LongestRun(attempt_meta'.questions_attempted)
       /\ (game_state # NoState /\ attempt_meta' # fresh_attempt_meta)
            => game_state'.max_streak >= game_state.max_streak
       /\ (AnswerStep /\ ~last_answer'.correct)
            => game_state'.max_streak = game_state.max_streak]_vars

(* two correct answers and then an incorrect one: the mark stays at 2 *)
(* while current_streak is back at 0                                  *)
C26_Witness ==
  /\ game_state # NoState
  /\ Logged
  /\ game_state.max_streak = 2
  /\ game_state.current_streak = 0
  /\ last_answer.q # None
  /\ ~last_answer.correct
  /\ LongestRun(attempt_meta.questions_attempted) = 2

(* what the reporter claims are stated on: the records of a log tagged *)
(* with a concept, and the sums and ratios over them                   *)
ConceptsOf(log) == UNION {Range(log[i].concepts) : i \in 1 .. Len(log)}

Tagged(log, c) == {i \in 1 .. Len(log) : c \in Range(log[i].concepts)}

RECURSIVE SumAt(_, _)
SumAt(nums, S) ==
  IF S = {} THEN 0
  ELSE LET i == CHOOSE x \in S : TRUE
       IN nums[i] + SumAt(nums, S \ {i})

CorrectsOf(log, c) == Cardinality({i \in Tagged(log, c) : log[i].correct})

PointsOf(log, c) == SumAt([i \in 1 .. Len(log) |-> log[i].pts_awarded], Tagged(log, c))

PossibleOf(log, c) == SumAt([i \in 1 .. Len(log) |-> log[i].difficulty], Tagged(log, c))

(* 10 * corrects >= 7 * attempts and 10 * points >= 7 * points possible *)
MeetsStrength(log, c) ==
  /\ 10 * CorrectsOf(log, c) >= 7 * Cardinality(Tagged(log, c))
  /\ 10 * PointsOf(log, c) >= 7 * PossibleOf(log, c)

MeetsWeakness(log, c) ==
  \/ 10 * CorrectsOf(log, c) <= 4 * Cardinality(Tagged(log, c))
  \/ 10 * PointsOf(log, c) <= 4 * PossibleOf(log, c)

HalfCorrect(log, c) == 2 * CorrectsOf(log, c) = Cardinality(Tagged(log, c))

AllCorrect(log, c) == CorrectsOf(log, c) = Cardinality(Tagged(log, c))

Names(list) == {list[i].concept : i \in 1 .. Len(list)}

Analyzed == probe.fn = "analyze_strengths_weaknesses" /\ probe.done

(* C27 as stated: a concept is in the strengths list iff both ratios are *)
(* >= 0.7 and in the weaknesses list iff either ratio is <= 0.4; no      *)
(* concept is in both lists; a concept with accuracy 0.5 is in neither   *)
(* list and one with accuracy 1.0 is in the strengths list.              *)
C27_IffAsStated ==
  Analyzed =>
    LET log == probe.questions
        strengths == Names(probe.result.strengths)
        weaknesses == Names(probe.result.weaknesses)
    IN /\ \A c \in ConceptsOf(log) :
            /\ c \in strengths <=> MeetsStrength(log, c)
            /\ c \in weaknesses <=> MeetsWeakness(log, c)
            /\ HalfCorrect(log, c) => c \notin strengths \cup weaknesses
            /\ AllCorrect(log, c) => c \in strengths
       /\ strengths \cap weaknesses = {}

(* a concept in one list that is at least as high (strengths) or as low *)
(* (weaknesses) in accuracy as the concept c                            *)
OutranksAll(list, log, c, descending) ==
  \A i \in 1 .. Len(list) :
    LET t == list[i].accuracy
    IN IF descending
       THEN t.num * Cardinality(Tagged(log, c)) >= CorrectsOf(log, c) * t.den
       ELSE t.num * Cardinality(Tagged(log, c)) <= CorrectsOf(log, c) * t.den

(* C27: every concept of the strengths list has both ratios >= 0.7 and   *)
(* every concept of the weaknesses list has a ratio <= 0.4; each list    *)
(* keeps at most 3 concepts, and a concept that meets a condition is     *)
(* left out of its list only when the list holds 3 concepts at least as  *)
(* high (strengths) or as low (weaknesses) in accuracy; no concept is in *)
(* both lists; a concept with accuracy 0.5 is never a strength, and is   *)
(* in neither list when its points ratio is above 0.4; a concept with    *)
(* accuracy 1.0 meets the strength condition.                            *)
C27_ClassificationKept ==
  Analyzed =>
    LET log == probe.questions
        strengths == Names(probe.result.strengths)
        weaknesses == Names(probe.result.weaknesses)
    IN /\ strengths \cup weaknesses \subseteq ConceptsOf(log)
       /\ Len(probe.result.strengths) <= KeptPerList
       /\ Len(probe.result.weaknesses) <= KeptPerList
       /\ Cardinality(strengths) = Len(probe.result.strengths)
       /\ Cardinality(weaknesses) = Len(probe.result.weaknesses)
       /\ strengths \cap weaknesses = {}
       /\ \A c \in ConceptsOf(log) :
            /\ c \in strengths => MeetsStrength(log, c)
            /\ c \in weaknesses => MeetsWeakness(log, c)
            /\ (MeetsStrength(log, c) /\ c \notin strengths)
                 => /\ Len(probe.result.strengths) = KeptPerList
                    /\ OutranksAll(probe.result.strengths, log, c, TRUE)
            /\ (MeetsWeakness(log, c) /\ c \notin weaknesses)
                 => /\ Len(probe.result.weaknesses) = KeptPerList
                    /\ OutranksAll(probe.result.weaknesses, log, c, FALSE)
            /\ HalfCorrect(log, c)
                 => /\ c \notin strengths
                    /\ 10 * PointsOf(log, c) > 4 * PossibleOf(log, c) => c \notin weaknesses
            /\ AllCorrect(log, c) => MeetsStrength(log, c)

(* "mean" answered correctly once: a strength; "variance" answered    *)
(* correctly once out of twice, with half of its points: in no list   *)
C27_Witness ==
  /\ Analyzed
  /\ Len(probe.questions) = 2
  /\ AllCorrect(probe.questions, "mean")
  /\ "mean" \in Names(probe.result.strengths)
  /\ HalfCorrect(probe.questions, "variance")
  /\ 2 * PointsOf(probe.questions, "variance") = PossibleOf(probe.questions, "variance")
  /\ "variance" \notin Names(probe.result.strengths) \cup Names(probe.result.weaknesses)

Recommended == probe.fn = "generate_recommendations" /\ probe.done

Min2(a, b) == IF a <= b THEN a ELSE b

(* C28: generate_recommendations gives, for each weakness in order, the *)
(* review ("lecture") record and then the practice record of its        *)
(* concept, and returns the first 5 of them: min(5, 2 * weaknesses)     *)
(* records, so that of a third weakness only the first record is left.  *)
C28_RecommendationsCapped ==
  Recommended =>
    LET w == probe.weaknesses
        r == probe.result
    IN /\ Len(r) = Min2(KeptRecommendations, 2 * Len(w))
       /\ \A k \in 1 .. Len(r) :
            /\ r[k].concept = w[(k + 1) \div 2].concept
            /\ r[k].type = IF k % 2 = 1 THEN "lecture" ELSE "practice"

(* three weaknesses: five records, the last one the review record of *)
(* the third concept                                                 *)
C28_Witness ==
  /\ Recommended
  /\ Len(probe.weaknesses) = 3
  /\ Len(probe.result) = 5
  /\ probe.result[5].type = "lecture"
  /\ probe.result[5].concept = probe.weaknesses[3].concept
  /\ probe.result[4].concept = probe.weaknesses[2].concept

ConceptStep == probe.fn = "get_concept_performance" /\ ~probe.done /\ probe'.done

BrokenDown == probe.fn = "get_difficulty_breakdown" /\ probe.done

LevelKeys == <<"1", "2", "3">>

(* C30: get_difficulty_breakdown gives, for each of the levels 1, 2, 3,  *)
(* total = the number of records of that difficulty and correct = the    *)
(* number of those that are correct; the totals add up to the length of  *)
(* the log and correct <= total for each level.                          *)
C30_DifficultyBreakdown ==
  BrokenDown =>
    LET log == probe.questions
        r == probe.result
    IN /\ DOMAIN r = Range(LevelKeys)
       /\ \A d \in 1 .. 3 :
            /\ r[LevelKeys[d]].total
                 = Cardinality({i \in 1 .. Len(log) : log[i].difficulty = d})
            /\ r[LevelKeys[d]].correct
                 = Cardinality({i \in 1 .. Len(log) : log[i].difficulty = d /\ log[i].correct})
            /\ r[LevelKeys[d]].correct <= r[LevelKeys[d]].total
       /\ r["1"].total + r["2"].total + r["3"].total = Len(log)

(* a correct record of difficulty 1 and an incorrect one of difficulty 3 *)
C30_Witness ==
  /\ BrokenDown
  /\ Len(probe.questions) = 2
  /\ probe.result["1"] = [total |-> 1, correct |-> 1]
  /\ probe.result["2"] = [total |-> 0, correct |-> 0]
  /\ probe.result["3"] = [total |-> 1, correct |-> 0]

SelectStep == probe.fn = "select_question" /\ ~probe.done /\ probe'.done

(* C31: a call of select_question changes nothing: the pool, the set of    *)
(* excluded ids and the game state (level, streaks, points,                *)
(* answered_this_attempt) are after the call what they were before, and    *)
(* the result is decided by pool, level and excluded ids alone: None when  *)
(* no question of the pool has the level and is not excluded, one of those *)
(* questions otherwise.                                                    *)
C31_SelectIsPure ==
  [][SelectStep =>
       /\ probe'.questions = probe.questions
       /\ probe'.excluded_ids = probe.excluded_ids
       /\ probe'.current_level = probe.current_level
       /\ game_state' = game_state
       /\ attempt_meta' = attempt_meta
       /\ LET ok == Eligible(probe.questions, probe.current_level, probe.excluded_ids)
          IN probe'.result \in (IF ok = {} THEN {None} ELSE ok)]_vars

(* a question was returned in the middle of an attempt, with an answer *)
(* already given and other questions excluded                          *)
C31_Witness ==
  /\ Selected
  /\ probe.result # None
  /\ game_state # NoState
  /\ game_state.answered_this_attempt # << >>
  /\ probe.excluded_ids # {}
  /\ Len(probe.questions) > 1

(* C32: in every state of an attempt the attempt log has one record per   *)
(* entry of answered_this_attempt, and the ids of the records, in order,  *)
(* are answered_this_attempt.                                             *)
C32_LogAlignedWithAnswered ==
  (Logged /\ game_state # NoState) =>
    /\ Len(attempt_meta.questions_attempted) = Len(game_state.answered_this_attempt)
    /\ \A i \in 1 .. Len(game_state.answered_this_attempt) :
         attempt_meta.questions_attempted[i].id = game_state.answered_this_attempt[i]

(* two different questions answered, the first of them wrongly *)
C32_Witness ==
  /\ Logged
  /\ game_state # NoState
  /\ Len(game_state.answered_this_attempt) >= 2
  /\ game_state.answered_this_attempt[1] # game_state.answered_this_attempt[2]
  /\ ~attempt_meta.questions_attempted[1].correct
  /\ attempt_meta.questions_attempted[2].id = game_state.answered_this_attempt[2]

(* the questions an attempt can draw from: those of the bank with the    *)
(* topic of the attempt; handle_answer's module has no topics and draws  *)
(* from the whole list                                                   *)
AttemptPool ==
  IF impl = "adaptive" THEN QIds ELSE Range(TopicQuestions(AllQuestions, current_topic))

(* C33: an attempt over a finite pool processes at most as many answers *)
(* as the pool has questions (every processed answer takes one question *)
(* out of the eligible set of the attempt), after which the selector is *)
(* exhausted and end_quiz runs.                                         *)
C33_AtMostPoolAnswers ==
  game_state # NoState =>
    Len(game_state.answered_this_attempt) <= Cardinality(AttemptPool)

Expired == game_active /\ probe.now - probe.start_time >= QUIZ_DURATION_SECONDS

(* C34: once QUIZ_DURATION_SECONDS have passed since start_time, no step *)
(* of the session processes an answer: a run of the quiz page ends the   *)
(* quiz first, so the game state, the attempt log and the question on    *)
(* display stay as they were when the time ran out.                      *)
C34_NoAnswerAfterExpiry ==
  [][Expired =>
       /\ game_state' = game_state
       /\ attempt_meta' = attempt_meta
       /\ answers_total' = answers_total
       /\ current_question' = current_question
       /\ last_answer' = last_answer
       /\ game_active' => UNCHANGED session_vars]_vars

(* Submit Answer was clicked for a question on display after the time had *)
(* run out: the quiz is over and the log holds the one earlier answer     *)
C34_Witness ==
  /\ probe.fn = "clock"
  /\ probe.late_submit
  /\ ~game_active
  /\ page = "results"
  /\ current_question # None
  /\ Len(attempt_meta.questions_attempted) = 1
  /\ probe.now - probe.start_time >= QUIZ_DURATION_SECONDS

(* C35: after every answer streak_at_level is 0, 1 or 2 (it never rests at *)
(* or above CORRECTS_TO_PROMOTE), and in every state of an attempt         *)
(* streak_at_level is at most current_streak.                              *)
C35_StreakBounds ==
  game_state # NoState =>
    /\ game_state.streak_at_level \in 0 .. CORRECTS_TO_PROMOTE - 1
    /\ game_state.streak_at_level <= game_state.current_streak

(* five correct answers in a row: a promotion behind, two corrects at the *)
(* new level                                                              *)
C35_Witness ==
  /\ answer_trail # << >>
  /\ LastAnswer.correct
  /\ game_state.current_streak = CORRECTS_TO_PROMOTE + 2
  /\ game_state.streak_at_level = CORRECTS_TO_PROMOTE - 1
  /\ game_state.current_level = MinLevel + 1

(* C36: after every call of process_answer the total recorded for the   *)
(* attempt, attempt_meta["total_points"], which the results page shows  *)
(* as Final Score, is game_state["total_points"], the points of the     *)
(* answer just processed included.                                      *)
C36_RecordedTotalIsCurrent ==
  (Logged /\ game_state # NoState) =>
    attempt_meta.total_points = game_state.total_points

(* C37: starting topic quizzes leaves the question bank as it was: in    *)
(* every state the list that topic stats, unlock checks and the next     *)
(* start_topic_quiz read, st.session_state.questions, holds every        *)
(* question of the bank, and the pool of a topic quiz is all the         *)
(* questions of the bank that have its topic.                            *)
C37_BankReadOnly ==
  /\ \A q \in QIds : q \in Range(session_questions)
  /\ (game_active /\ current_topic # "") =>
       {q \in Range(session_questions) : Bank[q].topic = current_topic}
         = {q \in QIds : Bank[q].topic = current_topic}

(* C38: during a topic quiz every question that becomes the current       *)
(* question has the topic of the quiz, whether get_next_question chose it *)
(* or the selection inside process_answer, whatever list of questions     *)
(* the caller passes.                                                     *)
C38_CurrentQuestionInTopic ==
  (Logged /\ game_active /\ current_topic # "" /\ current_question # None) =>
    Bank[current_question].topic = current_topic

StartStep == ~game_active /\ game_active'

(* C39: start_quiz makes a fresh attempt whatever the attempt before left: *)
(* afterwards current_level is 1, streak_at_level, current_streak,         *)
(* max_streak and total_points are 0, answered_this_attempt and the        *)
(* attempt log are empty, current_question is None and game_active is     *)
(* True.                                                                   *)
C39_FreshAttempt ==
  [][StartStep =>
       /\ game_state'.current_level = 1
       /\ game_state'.streak_at_level = 0
       /\ game_state'.current_streak = 0
       /\ game_state'.max_streak = 0
       /\ game_state'.total_points = 0
       /\ game_state'.answered_this_attempt = << >>
       /\ attempt_meta'.questions_attempted = << >>
       /\ current_question' = None
       /\ answer_submitted' = FALSE
       /\ game_active']_vars

(* a second attempt has just begun; the one before it earned points, *)
(* raised the level streak and had a question on display             *)
C39_Witness ==
  /\ game_active
  /\ answers_total >= 2
  /\ user_doc.best_score >= 2
  /\ game_state # NoState
  /\ game_state.total_points = 0
  /\ game_state.answered_this_attempt = << >>
  /\ attempt_meta.questions_attempted = << >>
  /\ current_question = None

RecordUpdated == probe.fn = "update_user_best_and_answers" /\ probe.done

ProgressSupplied ==
  ~probe.updated_data.none /\ "topic_progress" \in DOMAIN probe.updated_data

(* C40: update_user_best_and_answers returns False and writes nothing when *)
(* the store is not initialised or the learner has no record; otherwise it *)
(* returns True, best_score becomes the larger of the stored best and the  *)
(* given score, answered_questions the stored ids together with the given *)
(* ids, and every other field stays as it was, topic_progress too unless   *)
(* one is supplied.                                                        *)
C40_UpdateContract ==
  RecordUpdated =>
    IF ~probe.db_ok \/ ~probe.doc.exists
    THEN /\ probe.result = FALSE
         /\ probe.after = probe.doc
    ELSE /\ probe.result = TRUE
         /\ probe.after.best_score = Max2(probe.doc.best_score, probe.best_score)
         /\ BagToSet(probe.after.answered_questions)
              = BagToSet(probe.doc.answered_questions) \cup probe.new_answered_ids
         /\ probe.after.exists
         /\ probe.after.display_name = probe.doc.display_name
         /\ probe.after.topic_progress
              = IF ProgressSupplied THEN probe.updated_data.topic_progress
                ELSE probe.doc.topic_progress

(* a call that returned True: a lower score, an id already stored and a *)
(* new one, a topic_progress supplied                                   *)
C40_Witness ==
  /\ RecordUpdated
  /\ probe.result
  /\ probe.best_score < probe.doc.best_score
  /\ probe.new_answered_ids = {1, 3}
  /\ BagToSet(probe.doc.answered_questions) = {1, 2}
  /\ ProgressSupplied
  /\ probe.after.topic_progress # probe.doc.topic_progress

=============================================================================
